---- MODULE Spec2Model ----
(***************************************************************************)
(* mpc.js: a monadic parser combinator library (mpc.ts) and the expression *)
(* grammar, AST and serializer built on it (exp.ts).                       *)
(*                                                                         *)
(* A text is a sequence of one-character strings.  A parser is a tagged    *)
(* tuple naming the library function that built it and its arguments; the  *)
(* closure the function returns is the operator of the same name below,    *)
(* and Run dispatches a parser to it.  A JavaScript value is a tagged      *)
(* tuple as well, so that any two values can be compared.                  *)
(***************************************************************************)
EXTENDS Integers, Sequences, FiniteSets, TLC

VARIABLES
    text,       \* ParserState.text of the current parse
    ps,         \* the cursor: [position, indent] of the ParserState
    before,     \* the cursor when the most recent parse call started
    pr,         \* the ParseResult of the most recent parse call
    parser,     \* the parser the most recent parse call ran
    str,        \* the string the most recent toString returned
    base,       \* the tree of the first parse of this run
    mode,       \* where text came from: typed, serialized, spaced or again
    pc,         \* position of the run
    frame,      \* the local variables of the combinator that is running
    calls       \* what the parseExpression and toString calls so far returned

vars == <<text, ps, before, pr, parser, str, base, mode, pc, frame, calls>>

(***************************************************************************)
(* Bounds of the model.                                                    *)
(***************************************************************************)
MaxLen == 3         \* longest exhaustively enumerated expression text
MaxPadLen == 5      \* longest text that receives an extra whitespace
LibMaxLen == 2      \* longest text handed to a library parser
MaxIndent == 2      \* highest indent a library call starts from

(***************************************************************************)
(* JavaScript values.                                                      *)
(***************************************************************************)
Undefined == <<"undefined">>
Null == <<"null">>
Num(n) == <<"number", n>>
Str(s) == <<"string", s>>
Arr(a) == <<"array", a>>

\* String.charCodeAt for the characters the model uses
charCodeAt(c) ==
    CASE c = "\t" -> 9   [] c = "\n" -> 10  [] c = "\r" -> 13  [] c = " " -> 32
      [] c = "$" -> 36   [] c = "(" -> 40   [] c = ")" -> 41   [] c = "*" -> 42
      [] c = "+" -> 43   [] c = "-" -> 45   [] c = "." -> 46   [] c = "/" -> 47
      [] c = "0" -> 48   [] c = "1" -> 49   [] c = "2" -> 50   [] c = "3" -> 51
      [] c = "4" -> 52   [] c = "5" -> 53   [] c = "6" -> 54   [] c = "7" -> 55
      [] c = "8" -> 56   [] c = "9" -> 57   [] c = "<" -> 60   [] c = "=" -> 61
      [] c = ">" -> 62   [] c = "A" -> 65   [] c = "Z" -> 90   [] c = "a" -> 97
      [] c = "b" -> 98   [] c = "e" -> 101  [] c = "x" -> 120  [] c = "y" -> 121
      [] c = "z" -> 122

\* str.charCodeAt(iter) for every iter: the numbers array of anyCharOf & co
charCodes(s) == [i \in 1..Len(s) |-> charCodeAt(s[i])]

\* Array.indexOf: the 0-based index of the first occurrence, or -1
indexOf(numbers, ch) ==
    IF \E i \in 1..Len(numbers) : numbers[i] = ch
    THEN (CHOOSE i \in 1..Len(numbers) :
            /\ numbers[i] = ch
            /\ \A j \in 1..(i-1) : numbers[j] # ch) - 1
    ELSE -1

(***************************************************************************)
(* Satisfy functions (ch, pos) => boolean, as data.                        *)
(***************************************************************************)
satisyWhitespace(ch, pos) == ch \in {9, 10, 13, 32}

satisyTab(ch, pos) == ch = 9

\* the predicate of p_identifer
isLetter(ch, pos) == (ch >= 65 /\ ch <= 90) \/ (ch >= 97 /\ ch <= 122)

Satisfy(satisfy, ch, pos) ==
    CASE satisfy[1] = "satisyWhitespace" -> satisyWhitespace(ch, pos)
      [] satisfy[1] = "satisyTab" -> satisyTab(ch, pos)
      [] satisfy[1] = "isLetter" -> isLetter(ch, pos)
         \* anyStringOf: numbers.indexOf(ch) > -1
      [] satisfy[1] = "memberOf" -> indexOf(satisfy[2], ch) > -1
         \* skipString: pos < ss.length && ss.charCodeAt(pos) === s
      [] satisfy[1] = "matches" ->
            pos < Len(satisfy[2]) /\ charCodeAt(satisfy[2][pos + 1]) = ch
         \* indention: pos < ps.indent && ch === 0x09
      [] satisfy[1] = "indentTabs" -> pos < satisfy[2] /\ ch = 9

(***************************************************************************)
(* ParserState.                                                            *)
(***************************************************************************)
ParserState == [position |-> 0, indent |-> 0]

isEOS(t, position) == position >= Len(t)

\* the scan loop with end = this.text.length - 1
RECURSIVE scan_short(_, _, _, _)
scan_short(t, pos, i, satisfy) ==
    IF pos < Len(t) - 1 /\ Satisfy(satisfy, charCodeAt(t[pos + 1]), i)
    THEN scan_short(t, pos + 1, i + 1, satisfy)
    ELSE pos

\* the position the scan loop of advance and skipAdvance stops at
RECURSIVE scan(_, _, _, _)
scan(t, pos, i, satisfy) ==
    IF pos < Len(t) /\ Satisfy(satisfy, charCodeAt(t[pos + 1]), i)
    THEN scan(t, pos + 1, i + 1, satisfy)
    ELSE pos

\* ParserState.advance: the new position and the substring consumed
advance(t, begin, satisfy) ==
    LET pos == scan(t, begin, 0, satisfy)
    IN  [position |-> pos, value |-> SubSeq(t, begin + 1, pos)]

\* ParserState.skipAdvance: the new position and the number consumed
skipAdvance(t, begin, satisfy) ==
    LET pos == scan(t, begin, 0, satisfy)
    IN  [position |-> pos, value |-> pos - begin]

\* a call that returned a ParseResult
succeed(value, position, indent) ==
    [done |-> "return", success |-> TRUE, value |-> value,
     position |-> position, indent |-> indent]

\* fail that hands out a value
fail_partial(position, indent) ==
    [done |-> "return", success |-> FALSE, value |-> Null,
     position |-> position, indent |-> indent]

\* ParserState.fail
fail(position, indent) ==
    [done |-> "return", success |-> FALSE, value |-> Undefined,
     position |-> position, indent |-> indent]

\* a call that did not return: it threw, or it never ends
abort(how, position, indent) ==
    [done |-> how, success |-> FALSE, value |-> Undefined,
     position |-> position, indent |-> indent]

\* an indent no terminating repetition reaches: a repetition that passes
\* it is increasing the indent without end
IndentCap == 2 * MaxIndent + 4

(***************************************************************************)
(* Functions handed to the combinators, by name.                           *)
(***************************************************************************)
\* BinaryOperator
Unknown == 0
Add == 1
Subtract == 2
Multiply == 3
Divide == 4
EqualTo == 5
NotEqualTo == 6

BinaryExpression(op, left, right) == <<"BinaryExpression", op, left, right>>
NumberLiteralExpression(value) == <<"NumberLiteralExpression", value>>
IdentifierExpression(name) == <<"IdentifierExpression", name>>

\* expressionCombiner with the operands the other way round
expressionCombiner_swapped(l, op, r) == BinaryExpression(op, r, l)

expressionCombiner(l, op, r) == BinaryExpression(op, l, r)

\* parseFloat of a non-empty digit string: the number, written as its
\* decimal digits without leading zeros.  The number is the exact value
\* of the string as long as a double holds it exactly, which is so for
\* every text the model enumerates (at most 15 significant digits, at most
\* 22 trailing zeros).
RECURSIVE parseFloat(_)
parseFloat(c) ==
    IF Len(c) > 1 /\ c[1] = "0" THEN parseFloat(Tail(c)) ELSE <<"float", c>>

Combine(combiner, l, op, r) ==
    CASE combiner = "expressionCombiner" -> expressionCombiner(l, op, r)

Transform(transform, v) ==
    CASE transform = "NumberLiteralExpression" ->
            NumberLiteralExpression(parseFloat(v[2]))
      [] transform = "IdentifierExpression" -> IdentifierExpression(v[2])
      [] transform = "typeof" -> Str(v[1])

Predicate(predicate, v) ==
    CASE predicate = "accept" -> TRUE
      [] predicate = "reject" -> FALSE

(***************************************************************************)
(* The parsers.  Every operator below is the closure one library function  *)
(* returns: p is the parser (its tag and the arguments of the function),   *)
(* env holds the text and the parse slots of the circular() placeholders,  *)
(* position and indent are the cursor at the call.  The result carries     *)
(* the cursor the call leaves behind.                                      *)
(***************************************************************************)
RECURSIVE Run(_, _, _, _)

\* Parser.noResult
noResult(p, env, position, indent) ==
    LET pResult == Run(p[2], env, position, indent)
    IN  IF pResult.done # "return" THEN pResult
        ELSE IF ~pResult.success
        THEN fail(pResult.position, pResult.indent)
        ELSE succeed(Undefined, pResult.position, pResult.indent)

\* Parser.result
result(p, env, position, indent) ==
    LET pResult == Run(p[2], env, position, indent)
    IN  IF pResult.done # "return" THEN pResult
        ELSE IF ~pResult.success
        THEN fail(pResult.position, pResult.indent)
        ELSE succeed(p[3], pResult.position, pResult.indent)

\* Parser.test
test(p, env, position, indent) ==
    LET pResult == Run(p[2], env, position, indent)
    IN  IF pResult.done # "return" THEN pResult
        ELSE IF ~pResult.success
        THEN fail(pResult.position, pResult.indent)
        ELSE IF ~Predicate(p[3], pResult.value)
        THEN fail(position, indent)
        ELSE succeed(pResult.value, pResult.position, pResult.indent)

\* consumedAtLeast without the test of the consumed length
consumedAtLeast_unchecked(p, env, position, indent) ==
    LET pResult == Run(p[2], env, position, indent)
    IN  IF pResult.done # "return" THEN pResult
        ELSE IF ~pResult.success
        THEN fail(pResult.position, pResult.indent)
        ELSE succeed(pResult.value, pResult.position, pResult.indent)

\* Parser.consumedAtLeast
consumedAtLeast(p, env, position, indent) ==
    LET pResult == Run(p[2], env, position, indent)
    IN  IF pResult.done # "return" THEN pResult
        ELSE IF ~pResult.success
        THEN fail(pResult.position, pResult.indent)
        ELSE IF pResult.position < position + p[3]
        THEN fail(position, indent)
        ELSE succeed(pResult.value, pResult.position, pResult.indent)

\* inBetween without the restore after pEnd failed
inBetween_noRestore(p, env, position, indent) ==
    LET pBeginResult == Run(p[3], env, position, indent)
        pResult == Run(p[2], env, pBeginResult.position, pBeginResult.indent)
        pEndResult == Run(p[4], env, pResult.position, pResult.indent)
    IN  IF pBeginResult.done # "return" THEN pBeginResult
        ELSE IF ~pBeginResult.success
        THEN fail(pBeginResult.position, pBeginResult.indent)
        ELSE IF pResult.done # "return" THEN pResult
        ELSE IF ~pResult.success THEN fail(position, indent)
        ELSE IF pEndResult.done # "return" THEN pEndResult
        ELSE IF ~pEndResult.success
        THEN fail(pEndResult.position, pEndResult.indent)
        ELSE succeed(pResult.value, pEndResult.position, pEndResult.indent)

\* Parser.inBetween: p = <<"inBetween", this, pBegin, pEnd>>
inBetween(p, env, position, indent) ==
    LET pBeginResult == Run(p[3], env, position, indent)
        pResult == Run(p[2], env, pBeginResult.position, pBeginResult.indent)
        pEndResult == Run(p[4], env, pResult.position, pResult.indent)
    IN  IF pBeginResult.done # "return" THEN pBeginResult
        ELSE IF ~pBeginResult.success
        THEN fail(pBeginResult.position, pBeginResult.indent)
        ELSE IF pResult.done # "return" THEN pResult
        ELSE IF ~pResult.success THEN fail(position, indent)
        ELSE IF pEndResult.done # "return" THEN pEndResult
        ELSE IF ~pEndResult.success THEN fail(position, indent)
        ELSE succeed(pResult.value, pEndResult.position, pEndResult.indent)

\* Parser.keepLeft: p = <<"keepLeft", this, pOther>>
keepLeft(p, env, position, indent) ==
    LET pResult == Run(p[2], env, position, indent)
        pOtherResult == Run(p[3], env, pResult.position, pResult.indent)
    IN  IF pResult.done # "return" THEN pResult
        ELSE IF ~pResult.success
        THEN fail(pResult.position, pResult.indent)
        ELSE IF pOtherResult.done # "return" THEN pOtherResult
        ELSE IF ~pOtherResult.success THEN fail(position, indent)
        ELSE succeed(pResult.value, pOtherResult.position,
                     pOtherResult.indent)

\* Parser.keepRight: p = <<"keepRight", this, pOther>>
keepRight(p, env, position, indent) ==
    LET pResult == Run(p[2], env, position, indent)
        pOtherResult == Run(p[3], env, pResult.position, pResult.indent)
    IN  IF pResult.done # "return" THEN pResult
        ELSE IF ~pResult.success
        THEN fail(pResult.position, pResult.indent)
        ELSE IF pOtherResult.done # "return" THEN pOtherResult
        ELSE IF ~pOtherResult.success THEN fail(position, indent)
        ELSE succeed(pOtherResult.value, pOtherResult.position,
                     pOtherResult.indent)

\* except without ps.restore(snapshot) behind a successful pExcept
except_noRestore(p, env, position, indent) ==
    LET pExceptResult == Run(p[3], env, position, indent)
        pResult == Run(p[2], env, pExceptResult.position,
                       pExceptResult.indent)
    IN  IF pExceptResult.done # "return" THEN pExceptResult
        ELSE IF pExceptResult.success
        THEN fail(pExceptResult.position, pExceptResult.indent)
        ELSE IF pResult.done # "return" THEN pResult
        ELSE IF ~pResult.success
        THEN fail(pResult.position, pResult.indent)
        ELSE succeed(pResult.value, pResult.position, pResult.indent)

\* Parser.except: p = <<"except", this, pExcept>>
except(p, env, position, indent) ==
    LET pExceptResult == Run(p[3], env, position, indent)
        pResult == Run(p[2], env, pExceptResult.position,
                       pExceptResult.indent)
    IN  IF pExceptResult.done # "return" THEN pExceptResult
        ELSE IF pExceptResult.success THEN fail(position, indent)
        ELSE IF pResult.done # "return" THEN pResult
        ELSE IF ~pResult.success
        THEN fail(pResult.position, pResult.indent)
        ELSE succeed(pResult.value, pResult.position, pResult.indent)

\* Parser.opt
opt(p, env, position, indent) ==
    LET pResult == Run(p[2], env, position, indent)
    IN  IF pResult.done # "return" THEN pResult
        ELSE IF ~pResult.success
        THEN succeed(Null, pResult.position, pResult.indent)
        ELSE succeed(pResult.value, pResult.position, pResult.indent)

\* Parser.transform
transform(p, env, position, indent) ==
    LET pResult == Run(p[2], env, position, indent)
    IN  IF pResult.done # "return" THEN pResult
        ELSE IF ~pResult.success
        THEN fail(pResult.position, pResult.indent)
        ELSE succeed(Transform(p[3], pResult.value), pResult.position,
                     pResult.indent)

\* Parser.log: hands on the ParseResult of the parser it wraps
log(p, env, position, indent) == Run(p[2], env, position, indent)

\* success(value)
success(p, env, position, indent) == succeed(p[2], position, indent)

\* fail(): the parser that always fails
failure(p, env, position, indent) == fail(position, indent)

\* indent(): ps.increaseIndent()
increaseIndent(p, env, position, indent) ==
    succeed(Undefined, position, indent + 1)

\* dedent() whose decreaseIndent does not test the indent
dedent_unguarded(p, env, position, indent) ==
    succeed(Undefined, position, indent - 1)

\* dedent(): ps.decreaseIndent()
dedent(p, env, position, indent) ==
    IF indent < 1
    THEN fail(position, indent)
    ELSE succeed(Undefined, position, indent - 1)

\* indention whose satisfy function leaves out pos < ps.indent
indention_greedy(p, env, position, indent) ==
    LET tabs == skipAdvance(env.text, position, <<"satisyTab">>)
    IN  IF indent = 0 THEN succeed(Num(0), position, indent)
        ELSE IF tabs.value # indent THEN fail(position, indent)
        ELSE succeed(Num(tabs.value), tabs.position, indent)

\* indention()
indention(p, env, position, indent) ==
    LET tabs == skipAdvance(env.text, position, <<"indentTabs", indent>>)
    IN  IF indent = 0 THEN succeed(Num(0), position, indent)
        ELSE IF tabs.value # indent THEN fail(position, indent)
        ELSE succeed(Num(tabs.value), tabs.position, indent)

\* anyChar()
anyChar(p, env, position, indent) ==
    IF position >= Len(env.text)
    THEN fail(position, indent)
    ELSE succeed(Num(charCodeAt(env.text[position + 1])), position + 1,
                 indent)

\* anyCharOf(str)
anyCharOf(p, env, position, indent) ==
    LET ch == charCodeAt(env.text[position + 1])
    IN  IF position >= Len(env.text) THEN fail(position, indent)
        ELSE IF indexOf(charCodes(p[2]), ch) < 0 THEN fail(position, indent)
        ELSE succeed(Num(indexOf(charCodes(p[2]), ch)), position + 1,
                     indent)

\* anyCharOf2(str, mapTo)
anyCharOf2(p, env, position, indent) ==
    LET ch == charCodeAt(env.text[position + 1])
        i == indexOf(charCodes(p[2]), ch)
    IN  IF position >= Len(env.text) THEN fail(position, indent)
        ELSE IF i < 0 THEN fail(position, indent)
        ELSE IF i >= Len(p[3]) THEN fail(position, indent)
        ELSE succeed(p[3][i + 1], position + 1, indent)

\* anyStringOf(str)
anyStringOf(p, env, position, indent) ==
    LET r == advance(env.text, position, <<"memberOf", charCodes(p[2])>>)
    IN  succeed(Str(r.value), r.position, indent)

\* EOS()
EOS(p, env, position, indent) ==
    IF ~isEOS(env.text, position)
    THEN fail(position, indent)
    ELSE succeed(Undefined, position, indent)

\* EOL without the look at the character behind a carriage return
EOL_single(p, env, position, indent) ==
    IF isEOS(env.text, position) THEN succeed(Undefined, position, indent)
    ELSE IF env.text[position + 1] \in {"\n", "\r"}
    THEN succeed(Undefined, position + 1, indent)
    ELSE fail(position, indent)

\* EOL()
EOL(p, env, position, indent) ==
    IF isEOS(env.text, position) THEN succeed(Undefined, position, indent)
    ELSE IF env.text[position + 1] = "\n"
    THEN succeed(Undefined, position + 1, indent)
    ELSE IF env.text[position + 1] = "\r"
    THEN IF ~isEOS(env.text, position + 1) /\ env.text[position + 2] = "\n"
         THEN succeed(Undefined, position + 2, indent)
         ELSE succeed(Undefined, position + 1, indent)
    ELSE fail(position, indent)

\* satisfy(satisfy)
satisfy(p, env, position, indent) ==
    IF isEOS(env.text, position) THEN fail(position, indent)
    ELSE IF ~Satisfy(p[2], charCodeAt(env.text[position + 1]), 0)
    THEN fail(position, indent)
    ELSE succeed(Num(charCodeAt(env.text[position + 1])), position + 1,
                 indent)

\* satisfyMany(satisfy)
satisfyMany(p, env, position, indent) ==
    LET r == advance(env.text, position, p[2])
    IN  succeed(Str(r.value), r.position, indent)

\* skipSatisfyMany that counts the characters and leaves the cursor behind
skipSatisfyMany_stale(p, env, position, indent) ==
    LET r == skipAdvance(env.text, position, p[2])
    IN  succeed(Num(r.value), position, indent)

\* skipSatisfyMany(satisfy)
skipSatisfyMany(p, env, position, indent) ==
    LET r == skipAdvance(env.text, position, p[2])
    IN  succeed(Num(r.value), r.position, indent)

\* skipString without ps.restore(snapshot)
skipString_noRestore(p, env, position, indent) ==
    LET r == skipAdvance(env.text, position, <<"matches", p[2]>>)
    IN  IF r.value = Len(p[2])
        THEN succeed(Undefined, r.position, indent)
        ELSE fail(r.position, indent)

\* skipString(str)
skipString(p, env, position, indent) ==
    LET r == skipAdvance(env.text, position, <<"matches", p[2]>>)
    IN  IF r.value = Len(p[2])
        THEN succeed(Undefined, r.position, indent)
        ELSE fail(position, indent)

\* the while loop of many and manyString: seen holds the cursors the loop
\* head has had; a cursor that comes back repeats the loop for ever
RECURSIVE manyLoop(_, _, _, _, _, _)
manyLoop(p, env, position, indent, values, seen) ==
    LET pResult == Run(p, env, position, indent)
        cursor == <<pResult.position, pResult.indent>>
    IN  IF pResult.done # "return" THEN pResult
        ELSE IF ~pResult.success
        THEN succeed(values, pResult.position, pResult.indent)
        ELSE IF cursor \in seen \/ pResult.indent > IndentCap
        THEN abort("loop", pResult.position, pResult.indent)
        ELSE manyLoop(p, env, pResult.position, pResult.indent,
                      Append(values, pResult.value), seen \cup {cursor})

\* many(p)
many(p, env, position, indent) ==
    LET r == manyLoop(p[2], env, position, indent, <<>>,
                      {<<position, indent>>})
    IN  IF r.done = "return" THEN succeed(Arr(r.value), r.position, r.indent)
        ELSE r

\* String.fromCharCode, for the characters the model uses; the characters
\* of the codes 0 and 1 are written U+0000 and U+0001
fromCharCode(v) ==
    IF v = Num(0) THEN "U+0000"
    ELSE IF v = Num(1) THEN "U+0001"
    ELSE CHOOSE c \in {"\t", "\n", "\r", " ", "a", "b"} :
            Num(charCodeAt(c)) = v

\* manyString(p)
manyString(p, env, position, indent) ==
    LET r == manyLoop(p[2], env, position, indent, <<>>,
                      {<<position, indent>>})
    IN  IF r.done = "return"
        THEN succeed(Str([i \in 1..Len(r.value) |-> fromCharCode(r.value[i])]),
                     r.position, r.indent)
        ELSE r

\* combine2(p0, p1)
combine2(p, env, position, indent) ==
    LET p0Result == Run(p[2], env, position, indent)
        p1Result == Run(p[3], env, p0Result.position, p0Result.indent)
    IN  IF p0Result.done # "return" THEN p0Result
        ELSE IF ~p0Result.success
        THEN fail(p0Result.position, p0Result.indent)
        ELSE IF p1Result.done # "return" THEN p1Result
        ELSE IF ~p1Result.success THEN fail(position, indent)
        ELSE succeed(<<"object", p0Result.value, p1Result.value>>,
                     p1Result.position, p1Result.indent)

\* combine3(p0, p1, p2)
combine3(p, env, position, indent) ==
    LET p0Result == Run(p[2], env, position, indent)
        p1Result == Run(p[3], env, p0Result.position, p0Result.indent)
        p2Result == Run(p[4], env, p1Result.position, p1Result.indent)
    IN  IF p0Result.done # "return" THEN p0Result
        ELSE IF ~p0Result.success
        THEN fail(p0Result.position, p0Result.indent)
        ELSE IF p1Result.done # "return" THEN p1Result
        ELSE IF ~p1Result.success THEN fail(position, indent)
        ELSE IF p2Result.done # "return" THEN p2Result
        ELSE IF ~p2Result.success THEN fail(position, indent)
        ELSE succeed(<<"object", p0Result.value, p1Result.value,
                       p2Result.value>>,
                     p2Result.position, p2Result.indent)

\* the while loop of chainLeft: snapshot is the cursor after the last
\* accepted term, value the tree folded so far
RECURSIVE chainLeftLoop(_, _, _, _, _)
chainLeftLoop(p, env, snapshot, value, seen) ==
    LET pSeparatorResult == Run(p[3], env, snapshot[1], snapshot[2])
        pOtherResult == Run(p[2], env, pSeparatorResult.position,
                            pSeparatorResult.indent)
        cursor == <<pOtherResult.position, pOtherResult.indent>>
    IN  IF pSeparatorResult.done # "return" THEN pSeparatorResult
        ELSE IF ~pSeparatorResult.success
        THEN succeed(value, snapshot[1], snapshot[2])
        ELSE IF pOtherResult.done # "return" THEN pOtherResult
        ELSE IF ~pOtherResult.success
        THEN succeed(value, snapshot[1], snapshot[2])
        ELSE IF cursor \in seen \/ pOtherResult.indent > IndentCap
        THEN abort("loop", pOtherResult.position, pOtherResult.indent)
        ELSE chainLeftLoop(p, env, cursor,
                 Combine(p[4], value, pSeparatorResult.value,
                         pOtherResult.value),
                 seen \cup {cursor})

\* chainLeft(p, pSeparator, combiner)
chainLeft(p, env, position, indent) ==
    LET pResult == Run(p[2], env, position, indent)
        snapshot == <<pResult.position, pResult.indent>>
    IN  IF pResult.done # "return" THEN pResult
        ELSE IF ~pResult.success
        THEN fail(pResult.position, pResult.indent)
        ELSE chainLeftLoop(p, env, snapshot, pResult.value, {snapshot})

\* the for loop of choice, from choices[iter] on (iter counts from 1)
RECURSIVE choiceLoop(_, _, _, _, _)
choiceLoop(choices, iter, env, position, indent) ==
    IF iter > Len(choices) THEN fail(position, indent)
    ELSE LET pResult == Run(choices[iter], env, position, indent)
         IN  IF pResult.done # "return" THEN pResult
             ELSE IF pResult.success
             THEN succeed(pResult.value, pResult.position, pResult.indent)
             ELSE choiceLoop(choices, iter + 1, env, pResult.position,
                             pResult.indent)

\* choice(...choices)
choice(p, env, position, indent) ==
    choiceLoop(p[2], 1, env, position, indent)

\* the map switchOver builds: the parser of the last choice whose
\* differentiator holds the character, 0 when there is none
switchMap(choices, ch) ==
    LET hits == {i \in 1..Len(choices) : indexOf(charCodes(choices[i][1]), ch) > -1}
    IN  IF hits = {} THEN 0
        ELSE CHOOSE i \in hits : \A j \in hits : j <= i

\* switchOver that hands the call to defaultTo when no parser is registered
switchOver_defaulting(p, env, position, indent) ==
    LET ch == charCodeAt(env.text[position + 1])
        i == switchMap(p[3], ch)
    IN  IF position >= Len(env.text) THEN Run(p[2], env, position, indent)
        ELSE IF i = 0 THEN Run(p[2], env, position, indent)
        ELSE Run(p[3][i][2], env, position, indent)

\* switchOver(defaultTo, ...choices): p = <<"switchOver", defaultTo, choices>>
switchOver(p, env, position, indent) ==
    LET ch == charCodeAt(env.text[position + 1])
        i == switchMap(p[3], ch)
    IN  IF position >= Len(env.text) THEN fail(position, indent)
        ELSE IF i = 0 THEN fail(position, indent)
        ELSE Run(p[3][i][2], env, position, indent)

\* circular() whose users took a copy of its parse, null, when they were
\* built
circular_copied(p, env, position, indent) == abort("throw", position, indent)

\* circular(): a parser whose parse is null until it is assigned; calling
\* null throws
circular(p, env, position, indent) ==
    IF env.slots[p[2]] = Null
    THEN abort("throw", position, indent)
    ELSE Run(env.slots[p[2]], env, position, indent)

\* p.parse(ps)
Run(p, env, position, indent) ==
    CASE p[1] = "keepLeft" -> keepLeft(p, env, position, indent)
      [] p[1] = "transform" -> transform(p, env, position, indent)
      [] p[1] = "consumedAtLeast" -> consumedAtLeast(p, env, position, indent)
      [] p[1] = "chainLeft" -> chainLeft(p, env, position, indent)
      [] p[1] = "choice" -> choice(p, env, position, indent)
      [] p[1] = "anyCharOf2" -> anyCharOf2(p, env, position, indent)
      [] p[1] = "skipSatisfyMany" -> skipSatisfyMany(p, env, position, indent)
      [] p[1] = "anyStringOf" -> anyStringOf(p, env, position, indent)
      [] p[1] = "satisfyMany" -> satisfyMany(p, env, position, indent)
      [] p[1] = "inBetween" -> inBetween(p, env, position, indent)
      [] p[1] = "circular" -> circular(p, env, position, indent)
      [] p[1] = "skipString" -> skipString(p, env, position, indent)
      [] p[1] = "result" -> result(p, env, position, indent)
      [] p[1] = "noResult" -> noResult(p, env, position, indent)
      [] p[1] = "test" -> test(p, env, position, indent)
      [] p[1] = "keepRight" -> keepRight(p, env, position, indent)
      [] p[1] = "except" -> except(p, env, position, indent)
      [] p[1] = "opt" -> opt(p, env, position, indent)
      [] p[1] = "log" -> log(p, env, position, indent)
      [] p[1] = "success" -> success(p, env, position, indent)
      [] p[1] = "fail" -> failure(p, env, position, indent)
      [] p[1] = "indent" -> increaseIndent(p, env, position, indent)
      [] p[1] = "dedent" -> dedent(p, env, position, indent)
      [] p[1] = "indention" -> indention(p, env, position, indent)
      [] p[1] = "anyChar" -> anyChar(p, env, position, indent)
      [] p[1] = "anyCharOf" -> anyCharOf(p, env, position, indent)
      [] p[1] = "EOS" -> EOS(p, env, position, indent)
      [] p[1] = "EOL" -> EOL(p, env, position, indent)
      [] p[1] = "satisfy" -> satisfy(p, env, position, indent)
      [] p[1] = "many" -> many(p, env, position, indent)
      [] p[1] = "manyString" -> manyString(p, env, position, indent)
      [] p[1] = "combine2" -> combine2(p, env, position, indent)
      [] p[1] = "combine3" -> combine3(p, env, position, indent)
      [] p[1] = "switchOver" -> switchOver(p, env, position, indent)

\* anyIndention()
anyIndention == <<"skipSatisfyMany", <<"satisyTab">>>>

\* parse(p, s): a new ParserState, then p.parse(ps)
parse(p, slots, s) ==
    Run(p, [text |-> s, slots |-> slots], ParserState.position,
        ParserState.indent)

(***************************************************************************)
(* exp.ts: the expression grammar.                                         *)
(***************************************************************************)
p_whitespaces == <<"skipSatisfyMany", <<"satisyWhitespace">>>>

\* p_addLikeOperator with the operators one place early in the enum
p_addLikeOperator_shifted ==
    <<"keepLeft",
      <<"anyCharOf2", <<"+", "-">>, <<Num(Unknown), Num(Add)>>>>,
      p_whitespaces>>

p_addLikeOperator ==
    <<"keepLeft",
      <<"anyCharOf2", <<"+", "-">>, <<Num(Add), Num(Subtract)>>>>,
      p_whitespaces>>

p_multiplyLikeOperator ==
    <<"keepLeft",
      <<"anyCharOf2", <<"*", "/">>, <<Num(Multiply), Num(Divide)>>>>,
      p_whitespaces>>

\* p_comparisonOperator with the two results exchanged
p_comparisonOperator_swapped ==
    <<"keepLeft",
      <<"choice",
        << <<"result", <<"skipString", <<"=">>>>, Num(NotEqualTo)>>,
           <<"result", <<"skipString", <<"<", ">">>>>, Num(EqualTo)>> >> >>,
      p_whitespaces>>

p_comparisonOperator ==
    <<"keepLeft",
      <<"choice",
        << <<"result", <<"skipString", <<"=">>>>, Num(EqualTo)>>,
           <<"result", <<"skipString", <<"<", ">">>>>, Num(NotEqualTo)>> >> >>,
      p_whitespaces>>

\* p_number without consumedAtLeast(1)
p_number_empty ==
    <<"transform",
      <<"keepLeft",
        <<"anyStringOf", <<"0", "1", "2", "3", "4", "5", "6", "7", "8", "9">>>>,
        p_whitespaces>>,
      "NumberLiteralExpression">>

p_number ==
    <<"transform",
      <<"keepLeft",
        <<"consumedAtLeast",
          <<"anyStringOf", <<"0", "1", "2", "3", "4", "5", "6", "7", "8", "9">>>>,
          1>>,
        p_whitespaces>>,
      "NumberLiteralExpression">>

p_identifer ==
    <<"transform",
      <<"keepLeft",
        <<"consumedAtLeast", <<"satisfyMany", <<"isLetter">>>>, 1>>,
        p_whitespaces>>,
      "IdentifierExpression">>

p_expression == <<"circular", "p_expression">>

p_subExpression ==
    <<"keepLeft",
      <<"inBetween", p_expression, <<"skipString", <<"(">>>>,
        <<"skipString", <<")">>>> >>,
      p_whitespaces>>

p_term == <<"choice", <<p_number, p_identifer, p_subExpression>>>>

\* p_l1 chained by the +- operators
p_l1_addLike == <<"chainLeft", p_term, p_addLikeOperator, "expressionCombiner">>

p_l1 == <<"chainLeft", p_term, p_multiplyLikeOperator, "expressionCombiner">>

p_l2 == <<"chainLeft", p_l1, p_addLikeOperator, "expressionCombiner">>

p_l3 == <<"chainLeft", p_l2, p_comparisonOperator, "expressionCombiner">>

\* p_complete that skips whitespace before the first token
p_complete_skipping == <<"keepRight", p_whitespaces, p_l3>>

\* p_complete: p_expression.parse = p_l3.parse, and the parser is p_l3
p_complete == p_l3

\* p_expression.parse = p_l1.parse
Slots_l1 ==
    [n \in {"p_expression", "placeholder"} |->
        IF n = "p_expression" THEN p_l1 ELSE Null]

\* the parse field of every circular() placeholder once exp.ts is loaded:
\* p_expression's is assigned, that of a circular() nobody assigned is null
Slots ==
    [n \in {"p_expression", "placeholder"} |->
        IF n = "p_expression" THEN p_l3 ELSE Null]

\* parseExpression(s)
parseExpression(s) == parse(p_complete, Slots, s)

(***************************************************************************)
(* exp.ts: the serializer.                                                 *)
(***************************************************************************)
\* the decimal digits of a natural number
RECURSIVE decimal(_)
decimal(n) ==
    LET digit == <<"0", "1", "2", "3", "4", "5", "6", "7", "8", "9">>
    IN  IF n < 10 THEN <<digit[n + 1]>>
        ELSE decimal(n \div 10) \o <<digit[(n % 10) + 1]>>

\* a digit string without its trailing zeros
RECURSIVE significand(_)
significand(d) ==
    IF Len(d) > 1 /\ d[Len(d)] = "0"
    THEN significand(SubSeq(d, 1, Len(d) - 1))
    ELSE d

\* Number.prototype.toString of a whole number: its digits below 1e21,
\* exponent notation from 1e21 on
numberToString(value) ==
    LET d == value[2]
        m == significand(d)
    IN  IF Len(d) <= 21 THEN d
        ELSE <<m[1]>>
             \o (IF Len(m) > 1 THEN <<".">> \o Tail(m) ELSE <<>>)
             \o <<"e", "+">> \o decimal(Len(d) - 1)

\* the switch of visitBinary
operatorText(op) ==
    CASE op = Num(Add) -> <<" ", "+", " ">>
      [] op = Num(Subtract) -> <<" ", "-", " ">>
      [] op = Num(Multiply) -> <<" ", "*", " ">>
      [] op = Num(Divide) -> <<" ", "/", " ">>
      [] op = Num(EqualTo) -> <<" ", "=", " ">>
      [] op = Num(NotEqualTo) -> <<" ", "<", ">", " ">>
      [] OTHER -> <<" ", "<", "U", "N", "K", ">", " ">>

\* expr.apply(new ExpressionSerializer()), then visitor.expr.toString()
RECURSIVE toString(_)
toString(expr) ==
    CASE expr[1] = "BinaryExpression" ->
            <<"(">> \o toString(expr[3]) \o operatorText(expr[2])
                    \o toString(expr[4]) \o <<")">>
      [] expr[1] = "NumberLiteralExpression" -> numberToString(expr[2])
      [] expr[1] = "IdentifierExpression" -> expr[2]

(***************************************************************************)
(* The texts the expression parser is run on.                              *)
(***************************************************************************)
\* every text over alphabet of at most n characters
RECURSIVE TextsUpTo(_, _)
TextsUpTo(alphabet, n) ==
    IF n = 0 THEN {<<>>}
    ELSE LET shorter == TextsUpTo(alphabet, n - 1)
         IN  shorter \cup {Append(t, c) : t \in shorter, c \in alphabet}

Whitespace == {"\t", "\n", "\r", " "}
Digits == {"0", "1", "2", "3", "4", "5", "6", "7", "8", "9"}
Letters == {"A", "Z", "a", "b", "e", "x", "y", "z"}

ShortTexts == TextsUpTo({"1", "x", "+", "*", "=", "(", ")", " "}, MaxLen)

Terms == {<<"1">>, <<"x">>, <<"(", "x", "+", "1", ")">>}
Operators == {<<"+">>, <<"-">>, <<"*">>, <<"/">>, <<"=">>, <<"<", ">">>}
Gaps == {<<>>, <<" ">>}

\* a op b and a op b op c, with the same gap around every operator
ChainTexts ==
    {a \o g \o o \o g \o b : a \in Terms, b \in Terms, o \in Operators,
                              g \in Gaps}
    \cup {a \o g \o o1 \o g \o b \o g \o o2 \o g \o c :
            a \in Terms, b \in Terms, c \in Terms,
            o1 \in Operators, o2 \in Operators, g \in Gaps}

\* 10^21 and 10^22, the smallest powers of ten a double prints with an
\* exponent
Zeros(n) == [i \in 1..n |-> "0"]

\* the texts the specification names
T_1plus2times3 == <<"1", " ", "+", " ", "2", " ", "*", " ", "3">>
T_1minus2minus3 == <<"1", " ", "-", " ", "2", " ", "-", " ", "3">>
T_paren1plus2times3 == <<"(", "1", " ", "+", " ", "2", ")", " ", "*", " ", "3">>
T_xEQy == <<"x", " ", "=", " ", "y">>
T_xNEy == <<"x", " ", "<", ">", " ", "y">>
T_compact == <<"x", "+", "3", "*", "(", "y", "+", "3", "*", "z", ")">>
T_spaced == <<"x", " ", "+", " ", "3", " ", "*", " ", "(", " ", "y", " ", "+", " ", "3", " ", "*", " ", "z", " ", ")">>
T_1plus == <<"1", "+">>
T_unbalanced == <<"(", "1", "+", "2">>
T_12dollar == <<"1", "2", "$">>
T_1space2 == <<"1", " ", "2">>

NamedTexts ==
    { T_1plus2times3, T_1minus2minus3, T_paren1plus2times3, T_xEQy, T_xNEy,
      T_compact, T_spaced, T_1plus, T_unbalanced, T_12dollar, T_1space2,
      <<"(", "(", "1", ")", "+", "2">>,
      <<"0", "0", "7", "\t", "\r", "\n", "z">>,
      <<"1", "2", " ", "\n", ")", "1">>,
      <<"3", "/", "A", "Z", "<", ">", "4", "5">>,
      <<"1">> \o Zeros(20),
      <<"1">> \o Zeros(21),
      <<"2", "5">> \o Zeros(21) }

\* (a op b) op c and c op (a op b)
Atoms == {<<"1">>, <<"x">>}

ParenTexts ==
    {<<"(">> \o a \o g \o o1 \o g \o b \o <<")">> \o g \o o2 \o g \o c :
        a \in Atoms, b \in Atoms, c \in Atoms,
        o1 \in Operators, o2 \in Operators, g \in Gaps}
    \cup {c \o g \o o2 \o g \o <<"(">> \o a \o g \o o1 \o g \o b \o <<")">> :
        a \in Atoms, b \in Atoms, c \in Atoms,
        o1 \in Operators, o2 \in Operators, g \in Gaps}

\* ((a o b)), (c o2 (a o1 b)) and a parenthesis in a parenthesis in a
\* parenthesis
T_nested3 == <<"(", "(", "(", "x", "=", "1", ")", ")", "+", "1", ")">>

NestedTexts ==
    {<<"(", "(">> \o a \o o \o b \o <<")", ")">> :
        a \in Atoms, b \in Atoms, o \in Operators}
    \cup {<<"(">> \o c \o o2 \o <<"(">> \o a \o o1 \o b \o <<")", ")">> :
        a \in Atoms, b \in Atoms, c \in Atoms,
        o1 \in Operators, o2 \in Operators}
    \cup {T_nested3}

\* an expression behind one whitespace character
LeadingTexts ==
    {<<w>> \o t : w \in Whitespace,
                  t \in Terms \cup {T_1plus2times3, T_xEQy}}

Inputs ==
    ShortTexts \cup ChainTexts \cup ParenTexts \cup NamedTexts
               \cup NestedTexts \cup LeadingTexts

(***************************************************************************)
(* The host: a text is typed, parsed and, when it parses, serialized       *)
(* (app.js).  The serialized string, or the text with one more whitespace  *)
(* after a token, is then typed in its turn.                               *)
(***************************************************************************)
NoResult == [done |-> "none", success |-> FALSE, value |-> Undefined]

\* no combinator is running
NoFrame == [kind |-> "none"]

\* no call has been made
NoCalls == [parsed |-> {}, printed |-> {}]

Init ==
    /\ text \in Inputs
    /\ ps = ParserState
    /\ before = ParserState
    /\ pr = NoResult
    /\ parser = <<"none">>
    /\ str = <<>>
    /\ base = Undefined
    /\ mode = "typed"
    /\ pc = "input"
    /\ frame = NoFrame
    /\ calls = NoCalls

\* what a parseExpression call on the text s returned
Call(s, r) ==
    [text |-> s, success |-> r.success, value |-> r.value,
     position |-> r.position, indent |-> r.indent]

\* exp.parseExpression(expression.innerText) with a ParserState that is kept
\* from one call to the next
ParseExpression_keepsState ==
    /\ pc = "input"
    /\ LET r == Run(p_complete, [text |-> text, slots |-> Slots], ps.position,
                    ps.indent)
       IN  /\ ps' = [position |-> r.position, indent |-> r.indent]
           /\ pr' = [done |-> r.done, success |-> r.success, value |-> r.value]
           /\ calls' = [calls EXCEPT !.parsed = @ \cup {Call(text, r)}]
    /\ before' = ps
    /\ parser' = <<"p_complete">>
    /\ pc' = "parsed"
    /\ UNCHANGED <<text, str, base, mode, frame>>

\* exp.parseExpression(expression.innerText)
ParseExpression ==
    /\ pc = "input"
    /\ LET r == parseExpression(text)
       IN  /\ ps' = [position |-> r.position, indent |-> r.indent]
           /\ pr' = [done |-> r.done, success |-> r.success, value |-> r.value]
           /\ calls' = [calls EXCEPT !.parsed = @ \cup {Call(text, r)}]
    /\ before' = ParserState
    /\ parser' = <<"p_complete">>
    /\ pc' = "parsed"
    /\ UNCHANGED <<text, str, base, mode, frame>>

\* if (pr.success) alert(exp.toString(pr.value))
Serialize ==
    /\ pc = "parsed"
    /\ pr.success
    /\ str' = toString(pr.value)
    /\ calls' = [calls EXCEPT
                    !.printed = @ \cup {[value |-> pr.value, str |-> str']}]
    /\ pc' = "printed"
    /\ UNCHANGED <<text, ps, before, pr, parser, base, mode, frame>>

\* the serialized string is typed as the next text
Retype ==
    /\ pc = "printed"
    /\ mode = "typed"
    /\ text' = str
    /\ base' = pr.value
    /\ mode' = "serialized"
    /\ pc' = "input"
    /\ UNCHANGED <<ps, before, pr, parser, str, frame, calls>>

\* t[k] is the last character of a token
EndsToken(t, k) ==
    /\ t[k] \notin Whitespace
    /\ k < Len(t) =>
        /\ ~(t[k] \in Digits /\ t[k + 1] \in Digits)
        /\ ~(t[k] \in Letters /\ t[k + 1] \in Letters)
        /\ ~(t[k] = "<" /\ t[k + 1] = ">")

\* a text that parsed to its end is typed again with one whitespace more
\* after one of its tokens
AddWhitespace ==
    /\ pc = "parsed"
    /\ mode = "typed"
    /\ pr.success
    /\ ps.position = Len(text)
    /\ Len(text) <= MaxPadLen
    /\ \E k \in 1..Len(text), w \in Whitespace :
        /\ EndsToken(text, k)
        /\ text' = SubSeq(text, 1, k) \o <<w>> \o SubSeq(text, k + 1, Len(text))
    /\ base' = pr.value
    /\ mode' = "spaced"
    /\ pc' = "input"
    /\ UNCHANGED <<ps, before, pr, parser, str, frame, calls>>

\* the text that was parsed before the serialized string is typed once more
TypeAgain ==
    /\ pc = "parsed"
    /\ mode = "serialized"
    /\ \E c \in calls.parsed : c.text # text /\ text' = c.text
    /\ mode' = "again"
    /\ pc' = "input"
    /\ UNCHANGED <<ps, before, pr, parser, str, base, frame, calls>>

Next ==
    ParseExpression \/ Serialize \/ Retype \/ AddWhitespace \/ TypeAgain

Spec == Init /\ [][Next]_vars

(***************************************************************************)
(* The library on its own: a parser built from the library's functions is  *)
(* run on a cursor that indent() and anyChar() calls have moved.           *)
(***************************************************************************)
LibTexts ==
    TextsUpTo({"a", "b", "\t", "\n"}, LibMaxLen)
    \cup {<<"\r">>, <<"\r", "\n">>, <<"\r", "a">>, <<"a", "\r">>}

Leaves ==
    { <<"anyChar">>,
      <<"anyCharOf", <<"a", "b">>>>,
      <<"anyCharOf2", <<"a", "b">>, <<Num(1)>>>>,
      <<"satisfy", <<"satisyTab">>>>,
      <<"skipString", <<"a", "b">>>>,
      <<"EOS">>, <<"EOL">>, <<"dedent">>, <<"indention">> }

Core ==
    { <<"anyChar">>, <<"skipString", <<"a", "b">>>>, <<"EOS">>, <<"dedent">>,
      <<"indention">> }

Movers == {<<"anyChar">>, <<"dedent">>, <<"EOS">>}

UnaryOver(S) ==
    {<<"noResult", p>> : p \in S}
    \cup {<<"result", p, Num(7)>> : p \in S}
    \cup {<<"test", p, f>> : p \in S, f \in {"accept", "reject"}}
    \cup {<<"consumedAtLeast", p, i>> : p \in S, i \in 1..2}
    \cup {<<"transform", p, "typeof">> : p \in S}

BinaryOver(S, T) ==
    {<<k, p, q>> : k \in {"keepLeft", "keepRight", "except", "combine2"},
                   p \in S, q \in T}
    \cup {<<"chainLeft", p, q, "expressionCombiner">> : p \in S, q \in T}

TernaryOver(S) ==
    {<<k, p, q, r>> : k \in {"inBetween", "combine3"},
                      p \in S, q \in S, r \in S}

ChoicesOver(S) ==
    {<<"choice", <<>>>>}
    \cup {<<"choice", <<p>>>> : p \in S}
    \cup {<<"choice", <<p, q>>>> : p \in S, q \in S}

SwitchesOver(S) ==
    {<<"switchOver", d, << <<<<"a", "\t">>, p>> >> >> : d \in S, p \in S}
    \cup {<<"switchOver", <<"anyChar">>,
            << <<<<"a", "\t">>, p>>, <<<<"a">>, q>> >> >> : p \in S, q \in S}

\* parsers that nest two combinators
Nested ==
    LET two == {<<"anyChar">>, <<"dedent">>}
        inner == BinaryOver(two, two) \cup ChoicesOver(two)
    IN  UnaryOver(inner) \cup BinaryOver(inner, Movers) \cup BinaryOver(Movers, inner)

\* parsers built from the functions whose parsers can fail
FailingParsers ==
    Leaves \cup UnaryOver(Leaves) \cup BinaryOver(Leaves, Core) \cup TernaryOver(Movers)
           \cup ChoicesOver(Core) \cup SwitchesOver(Movers) \cup Nested

\* parsers that reference a circular() placeholder: one that nobody
\* assigned, and p_expression
Placeholders ==
    LET unassigned == <<"circular", "placeholder">>
    IN  { unassigned, <<"opt", unassigned>>, <<"log", unassigned>>,
          <<"many", unassigned>>,
          <<"keepLeft", <<"anyChar">>, unassigned>>,
          <<"choice", <<<<"fail">>, unassigned>>>>,
          <<"circular", "p_expression">>,
          <<"many", <<"circular", "p_expression">>>> }

\* parsers built from the functions whose parsers always succeed, and from
\* log
OtherParsers ==
    { <<"success", Num(1)>>, <<"fail">>, <<"indent">>, anyIndention,
      <<"skipSatisfyMany", <<"satisyWhitespace">>>>,
      <<"satisfyMany", <<"isLetter">>>>,
      <<"anyStringOf", <<"a", "\t">>>>,
      <<"many", <<"anyChar">>>>, <<"many", <<"EOL">>>>,
      <<"manyString", <<"anyChar">>>>,
      <<"keepRight", <<"indent">>, <<"indention">>>>,
      <<"keepLeft", <<"many", <<"anyChar">>>>, <<"fail">>>>,
      <<"keepLeft", <<"EOL">>, <<"EOL">>>> }
    \cup {<<"opt", p>> : p \in Core}
    \cup {<<"log", p>> : p \in Core \cup {<<"fail">>}}

\* skipString of every string of a and b up to two characters, the empty
\* one included, and of a string with a tab
Literals ==
    {<<"skipString", s>> : s \in TextsUpTo({"a", "b"}, 2) \cup {<<"a", "\t">>}}

LibParsers == FailingParsers \cup OtherParsers \cup Placeholders \cup Literals

LibInit ==
    /\ text \in LibTexts
    /\ ps = ParserState
    /\ before = ParserState
    /\ pr = NoResult
    /\ parser = <<"none">>
    /\ str = <<>>
    /\ base = Undefined
    /\ mode = "library"
    /\ pc = "ready"
    /\ frame = NoFrame
    /\ calls = NoCalls

\* indent().parse(ps)
LibIndent ==
    /\ pc = "ready"
    /\ ps.indent < MaxIndent
    /\ LET r == Run(<<"indent">>, [text |-> text, slots |-> Slots],
                    ps.position, ps.indent)
       IN  ps' = [position |-> r.position, indent |-> r.indent]
    /\ UNCHANGED <<text, before, pr, parser, str, base, mode, pc, frame,
                   calls>>

\* anyChar().parse(ps), away from the end
LibAnyChar ==
    /\ pc = "ready"
    /\ ps.position < Len(text)
    /\ LET r == Run(<<"anyChar">>, [text |-> text, slots |-> Slots],
                    ps.position, ps.indent)
       IN  ps' = [position |-> r.position, indent |-> r.indent]
    /\ UNCHANGED <<text, before, pr, parser, str, base, mode, pc, frame,
                   calls>>

\* p.parse(ps)
LibParse ==
    /\ pc = "ready"
    /\ \E p \in LibParsers :
        LET r == Run(p, [text |-> text, slots |-> Slots], ps.position,
                     ps.indent)
        IN  /\ ps' = [position |-> r.position, indent |-> r.indent]
            /\ pr' = [done |-> r.done, success |-> r.success,
                      value |-> r.value]
            /\ parser' = p
    /\ before' = ps
    /\ pc' = "called"
    /\ UNCHANGED <<text, str, base, mode, frame, calls>>

LibNext == LibIndent \/ LibAnyChar \/ LibParse

LibSpec == LibInit /\ [][LibNext]_vars

(***************************************************************************)
(* The loops of choice, many, manyString and chainLeft, one iteration at a *)
(* time.  The argument parsers run to their end within one step; frame     *)
(* holds the loop's local variables, and a record of what the loop did.    *)
(***************************************************************************)
Cursor(r) == [position |-> r.position, indent |-> r.indent]

Outcome(r) == [done |-> r.done, success |-> r.success, value |-> r.value]

Env == [text |-> text, slots |-> Slots]

\* the parsers handed to the loops as arguments
Arguments ==
    Leaves
    \cup { <<"success", Num(1)>>, <<"fail">>, <<"indent">>,
           <<"keepLeft", <<"anyChar">>, <<"dedent">>>>,
           <<"keepLeft", <<"indent">>, <<"anyChar">>>>,
           <<"keepRight", <<"anyChar">>, <<"EOS">>>>,
           <<"opt", <<"anyChar">>>> }

\* the choices: of none, one and two arguments, and of three
Choices ==
    LET three == Movers \cup {<<"keepLeft", <<"anyChar">>, <<"dedent">>>>}
    IN  ChoicesOver(Arguments)
        \cup {<<"choice", <<p, q, r>>>> : p \in three, q \in three,
                                          r \in three}

\* choice(...choices).parse(ps): the loop is entered with iter = 0
ChoiceCall ==
    /\ pc = "ready"
    /\ \E cs \in Choices : parser' = cs
    /\ before' = ps
    /\ frame' = [kind |-> "choice", iter |-> 0, tried |-> <<>>]
    /\ pc' = "choice"
    /\ UNCHANGED <<text, ps, pr, str, base, mode, calls>>

\* one pass of the for loop of choice that goes on after a success
ChoiceIterate_goesOn ==
    /\ pc = "choice"
    /\ frame.iter < Len(parser[2])
    /\ LET pResult == Run(parser[2][frame.iter + 1], Env, ps.position,
                          ps.indent)
           tried == Append(frame.tried,
                           [alternative |-> frame.iter, from |-> ps,
                            success |-> pResult.success])
       IN  /\ ps' = Cursor(pResult)
           /\ frame' = [frame EXCEPT !.iter = @ + 1, !.tried = tried]
           /\ IF pResult.done # "return"
              THEN pr' = Outcome(pResult) /\ pc' = "returned"
              ELSE IF pResult.success /\ frame.iter + 1 = Len(parser[2])
              THEN /\ pr' = Outcome(succeed(pResult.value, 0, 0))
                   /\ pc' = "returned"
              ELSE UNCHANGED <<pr, pc>>
    /\ UNCHANGED <<text, before, parser, str, base, mode, calls>>

\* one pass of the for loop of choice: p = choices[iter], p.parse(ps), and
\* the return when it succeeded
ChoiceIterate ==
    /\ pc = "choice"
    /\ frame.iter < Len(parser[2])
    /\ LET pResult == Run(parser[2][frame.iter + 1], Env, ps.position,
                          ps.indent)
           tried == Append(frame.tried,
                           [alternative |-> frame.iter, from |-> ps,
                            success |-> pResult.success])
       IN  /\ ps' = Cursor(pResult)
           /\ frame' = [frame EXCEPT !.iter = @ + 1, !.tried = tried]
           /\ IF pResult.done # "return"
              THEN pr' = Outcome(pResult) /\ pc' = "returned"
              ELSE IF pResult.success
              THEN /\ pr' = Outcome(succeed(pResult.value, 0, 0))
                   /\ pc' = "returned"
              ELSE UNCHANGED <<pr, pc>>
    /\ UNCHANGED <<text, before, parser, str, base, mode, calls>>

\* the for loop of choice is over: return ps.fail()
ChoiceFail ==
    /\ pc = "choice"
    /\ frame.iter >= Len(parser[2])
    /\ pr' = Outcome(fail(0, 0))
    /\ pc' = "returned"
    /\ UNCHANGED <<text, ps, before, parser, str, base, mode, frame, calls>>

\* the parsers many repeats; those of manyString have character codes as
\* values
Characters ==
    { <<"anyChar">>, <<"anyCharOf", <<"a", "b">>>>,
      <<"satisfy", <<"satisyTab">>>>,
      <<"keepLeft", <<"anyChar">>, <<"dedent">>>>,
      <<"keepRight", <<"indent">>, <<"anyChar">>>>,
      <<"success", Num(97)>> }

Repetitions ==
    {<<"many", p>> : p \in Arguments \cup Characters}
    \cup {<<"manyString", p>> : p \in Characters}

\* many(p).parse(ps) and manyString(p).parse(ps): result = [], data = []
ManyCall ==
    /\ pc = "ready"
    /\ \E m \in Repetitions : parser' = m
    /\ before' = ps
    /\ frame' = [kind |-> "many", result |-> <<>>, applications |-> 0,
                 seen |-> {ps}]
    /\ pc' = "many"
    /\ UNCHANGED <<text, ps, pr, str, base, mode, calls>>

\* what the loop of many or manyString stores for a value of p
Stored(kind, value) ==
    IF kind = "manyString" THEN fromCharCode(value) ELSE value

\* what many or manyString returns for what it stored
Collected(kind, stored) ==
    IF kind = "manyString" THEN Str(stored) ELSE Arr(stored)

\* one evaluation of the condition of the while loop of many or manyString
\* that takes a failure of p for a value
ManyIterate_keepsFailure ==
    /\ pc = "many"
    /\ LET pResult == Run(parser[2], Env, ps.position, ps.indent)
           stored == Append(frame.result, Stored("many", pResult.value))
       IN  /\ ps' = Cursor(pResult)
           /\ IF pResult.done # "return"
              THEN /\ pr' = Outcome(pResult)
                   /\ pc' = "returned"
                   /\ frame' = [frame EXCEPT !.applications = @ + 1]
              ELSE IF ~pResult.success
              THEN /\ pr' = Outcome(succeed(Collected(parser[1], stored),
                                            0, 0))
                   /\ pc' = "returned"
                   /\ frame' = [frame EXCEPT !.applications = @ + 1]
              ELSE /\ frame' = [frame EXCEPT !.applications = @ + 1,
                                             !.result = stored,
                                             !.seen = @ \cup {ps'}]
                   /\ pc' = IF ps' \in frame.seen \/ ps'.indent > IndentCap
                            THEN "diverged" ELSE "many"
                   /\ UNCHANGED pr
    /\ UNCHANGED <<text, before, parser, str, base, mode, calls>>

\* one evaluation of the condition of the while loop of many or manyString
\* that leaves the loop when p succeeded without moving the cursor
ManyIterate_guarded ==
    /\ pc = "many"
    /\ LET pResult == Run(parser[2], Env, ps.position, ps.indent)
       IN  /\ ps' = Cursor(pResult)
           /\ IF pResult.done # "return"
              THEN /\ pr' = Outcome(pResult)
                   /\ pc' = "returned"
                   /\ frame' = [frame EXCEPT !.applications = @ + 1]
              ELSE IF ~pResult.success \/ Cursor(pResult) = ps
              THEN /\ pr' = Outcome(succeed(Collected(parser[1],
                                                      frame.result), 0, 0))
                   /\ pc' = "returned"
                   /\ frame' = [frame EXCEPT !.applications = @ + 1]
              ELSE /\ frame' = [frame EXCEPT
                        !.applications = @ + 1,
                        !.result = Append(@, Stored(parser[1],
                                                    pResult.value)),
                        !.seen = @ \cup {ps'}]
                   /\ pc' = IF ps' \in frame.seen \/ ps'.indent > IndentCap
                            THEN "diverged" ELSE "many"
                   /\ UNCHANGED pr
    /\ UNCHANGED <<text, before, parser, str, base, mode, calls>>

\* one evaluation of the condition of the while loop of many or manyString,
\* with the body when p succeeded and the return when it failed.  The
\* parsers keep no state of their own: a loop head that comes back to a
\* cursor it has had, or climbs the indent without end, never returns.
ManyIterate ==
    /\ pc = "many"
    /\ LET pResult == Run(parser[2], Env, ps.position, ps.indent)
       IN  /\ ps' = Cursor(pResult)
           /\ IF pResult.done # "return"
              THEN /\ pr' = Outcome(pResult)
                   /\ pc' = "returned"
                   /\ frame' = [frame EXCEPT !.applications = @ + 1]
              ELSE IF ~pResult.success
              THEN /\ pr' = Outcome(succeed(Collected(parser[1],
                                                      frame.result), 0, 0))
                   /\ pc' = "returned"
                   /\ frame' = [frame EXCEPT !.applications = @ + 1]
              ELSE /\ frame' = [frame EXCEPT
                        !.applications = @ + 1,
                        !.result = Append(@, Stored(parser[1],
                                                    pResult.value)),
                        !.seen = @ \cup {ps'}]
                   /\ pc' = IF ps' \in frame.seen \/ ps'.indent > IndentCap
                            THEN "diverged" ELSE "many"
                   /\ UNCHANGED pr
    /\ UNCHANGED <<text, before, parser, str, base, mode, calls>>

\* the terms and the separators of the chains
Links ==
    { <<"anyChar">>, <<"anyCharOf", <<"a", "b">>>>,
      <<"satisfy", <<"satisyTab">>>>, <<"EOL">>, <<"dedent">>, <<"indent">>,
      <<"success", Num(1)>>, <<"fail">>,
      <<"keepLeft", <<"anyChar">>, <<"dedent">>>> }

ChainParsers ==
    {<<"chainLeft", p, q, "expressionCombiner">> : p \in Links, q \in Links}

\* chainLeft(p, pSeparator, combiner).parse(ps) that goes into the loop
\* whatever the first p.parse(ps) returned
ChainLeftCall_anyFirst ==
    /\ pc = "ready"
    /\ \E c \in ChainParsers :
        LET pResult == Run(c[2], Env, ps.position, ps.indent)
        IN  /\ parser' = c
            /\ ps' = Cursor(pResult)
            /\ frame' = [kind |-> "chainLeft", first |-> pResult,
                         snapshot |-> Cursor(pResult),
                         value |-> pResult.value, pairs |-> <<>>,
                         dangling |-> FALSE, seen |-> {Cursor(pResult)}]
            /\ IF pResult.done # "return"
               THEN pr' = Outcome(pResult) /\ pc' = "returned"
               ELSE pc' = "chainLeft" /\ UNCHANGED pr
    /\ before' = ps
    /\ UNCHANGED <<text, str, base, mode, calls>>

\* chainLeft(p, pSeparator, combiner).parse(ps), up to the while loop: the
\* first p.parse(ps), the return when it failed, the snapshot and the value
ChainLeftCall ==
    /\ pc = "ready"
    /\ \E c \in ChainParsers :
        LET pResult == Run(c[2], Env, ps.position, ps.indent)
        IN  /\ parser' = c
            /\ ps' = Cursor(pResult)
            /\ frame' = [kind |-> "chainLeft", first |-> pResult,
                         snapshot |-> Cursor(pResult),
                         value |-> pResult.value, pairs |-> <<>>,
                         dangling |-> FALSE, seen |-> {Cursor(pResult)}]
            /\ IF pResult.done # "return"
               THEN pr' = Outcome(pResult) /\ pc' = "returned"
               ELSE IF ~pResult.success
               THEN pr' = Outcome(fail(0, 0)) /\ pc' = "returned"
               ELSE pc' = "chainLeft" /\ UNCHANGED pr
    /\ before' = ps
    /\ UNCHANGED <<text, str, base, mode, calls>>

\* the cursor chainLeft leaves when its loop ends without ps.restore
chainLeftExit_noRestore(snapshot, cursor) == cursor

\* the cursor chainLeft leaves when its loop ends: ps.restore(snapshot)
chainLeftExit(snapshot, cursor) == snapshot

\* one evaluation of the condition of the while loop of chainLeft,
\* pSeparator.parse(ps) and then p.parse(ps), with the body when both
\* succeeded and the restore and the return when one failed
ChainLeftIterate ==
    /\ pc = "chainLeft"
    /\ LET pSeparatorResult == Run(parser[3], Env, ps.position, ps.indent)
           pOtherResult == Run(parser[2], Env, pSeparatorResult.position,
                               pSeparatorResult.indent)
       IN  IF pSeparatorResult.done # "return"
           THEN /\ pr' = Outcome(pSeparatorResult)
                /\ ps' = Cursor(pSeparatorResult)
                /\ pc' = "returned"
                /\ UNCHANGED frame
           ELSE IF ~pSeparatorResult.success
           THEN /\ pr' = Outcome(succeed(frame.value, 0, 0))
                /\ ps' = chainLeftExit(frame.snapshot,
                                       Cursor(pSeparatorResult))
                /\ pc' = "returned"
                /\ UNCHANGED frame
           ELSE IF pOtherResult.done # "return"
           THEN /\ pr' = Outcome(pOtherResult)
                /\ ps' = Cursor(pOtherResult)
                /\ pc' = "returned"
                /\ UNCHANGED frame
           ELSE IF ~pOtherResult.success
           THEN /\ pr' = Outcome(succeed(frame.value, 0, 0))
                /\ ps' = chainLeftExit(frame.snapshot, Cursor(pOtherResult))
                /\ pc' = "returned"
                /\ frame' = [frame EXCEPT !.dangling = TRUE]
           ELSE /\ ps' = Cursor(pOtherResult)
                /\ frame' = [frame EXCEPT
                      !.snapshot = ps',
                      !.value = Combine(parser[4], @, pSeparatorResult.value,
                                        pOtherResult.value),
                      !.pairs = Append(@, <<pSeparatorResult.value,
                                             pOtherResult.value>>),
                      !.seen = @ \cup {ps'}]
                /\ pc' = IF ps' \in frame.seen \/ ps'.indent > IndentCap
                         THEN "diverged" ELSE "chainLeft"
                /\ UNCHANGED pr
    /\ UNCHANGED <<text, before, parser, str, base, mode, calls>>

StepNext ==
    \/ LibIndent
    \/ LibAnyChar
    \/ ChoiceCall
    \/ ChoiceIterate
    \/ ChoiceFail
    \/ ManyCall
    \/ ManyIterate
    \/ ChainLeftCall
    \/ ChainLeftIterate

StepSpec == LibInit /\ [][StepNext]_vars

\* the host, the library calls and the loops together
AllInit == Init \/ LibInit

AllNext == Next \/ LibNext \/ StepNext

AllSpec == AllInit /\ [][AllNext]_vars

(***************************************************************************)
(* What the claims talk about.                                             *)
(***************************************************************************)
Number(digits) == NumberLiteralExpression(<<"float", digits>>)
Identifier(name) == IdentifierExpression(name)
Binary(op, left, right) == BinaryExpression(Num(op), left, right)

\* the tree of a term of Terms or Atoms
TermTree(a) ==
    CASE a = <<"1">> -> Number(<<"1">>)
      [] a = <<"x">> -> Identifier(<<"x">>)
      [] a = <<"(", "x", "+", "1", ")">> ->
            Binary(Add, Identifier(<<"x">>), Number(<<"1">>))

\* the BinaryOperator an operator text stands for
OperatorOf(o) ==
    CASE o = <<"+">> -> Add
      [] o = <<"-">> -> Subtract
      [] o = <<"*">> -> Multiply
      [] o = <<"/">> -> Divide
      [] o = <<"=">> -> EqualTo
      [] o = <<"<", ">">> -> NotEqualTo

\* the precedence level of an operator text: 1 binds tightest
Level(o) ==
    CASE o \in {<<"*">>, <<"/">>} -> 1
      [] o \in {<<"+">>, <<"-">>} -> 2
      [] o \in {<<"=">>, <<"<", ">">>} -> 3

\* the texts a o1 b o2 c of ChainTexts, taken apart
Chains ==
    {[text |-> a \o g \o o1 \o g \o b \o g \o o2 \o g \o c,
      a |-> a, o1 |-> o1, b |-> b, o2 |-> o2, c |-> c] :
        a \in Terms, b \in Terms, c \in Terms,
        o1 \in Operators, o2 \in Operators, g \in Gaps}

LeftTree(ch) ==
    Binary(OperatorOf(ch.o2),
           Binary(OperatorOf(ch.o1), TermTree(ch.a), TermTree(ch.b)),
           TermTree(ch.c))

RightTree(ch) ==
    Binary(OperatorOf(ch.o1), TermTree(ch.a),
           Binary(OperatorOf(ch.o2), TermTree(ch.b), TermTree(ch.c)))

\* the texts (a o1 b) o2 c and c o2 (a o1 b) of ParenTexts, taken apart
ParenLeft ==
    {[text |-> <<"(">> \o a \o g \o o1 \o g \o b \o <<")">> \o g \o o2 \o g \o c,
      a |-> a, o1 |-> o1, b |-> b, o2 |-> o2, c |-> c] :
        a \in Atoms, b \in Atoms, c \in Atoms,
        o1 \in Operators, o2 \in Operators, g \in Gaps}

ParenRight ==
    {[text |-> c \o g \o o2 \o g \o <<"(">> \o a \o g \o o1 \o g \o b \o <<")">>,
      a |-> a, o1 |-> o1, b |-> b, o2 |-> o2, c |-> c] :
        a \in Atoms, b \in Atoms, c \in Atoms,
        o1 \in Operators, o2 \in Operators, g \in Gaps}

Parsed == pc \in {"parsed", "printed"}

\* the number of unclosed "(" among the first k characters of t
Depth(t, k) ==
    Cardinality({i \in 1..k : t[i] = "("}) - Cardinality({i \in 1..k : t[i] = ")"})

\* t opens with a parenthesis that nothing closes
UnclosedAtStart(t) ==
    /\ Len(t) > 0
    /\ t[1] = "("
    /\ \A k \in 1..Len(t) : Depth(t, k) > 0

\* t ends with an operator that has a left neighbour and no right operand
MissingRightOperand(t) ==
    \E o \in Operators :
        /\ Len(t) > Len(o)
        /\ SubSeq(t, Len(t) - Len(o) + 1, Len(t)) = o

\* the length of the longest prefix of t from index i on whose
\* characters are all in S
RECURSIVE RunLength(_, _, _)
RunLength(t, i, S) ==
    IF i <= Len(t) /\ t[i] \in S THEN 1 + RunLength(t, i + 1, S) ELSE 0

\* the index (from 0) of the first character after the digits that open t
\* and the whitespace behind them
AfterNumber(t) ==
    RunLength(t, 1, Digits) + RunLength(t, RunLength(t, 1, Digits) + 1, Whitespace)

\* t is digits, then whitespace or none, then a character that is no operator
DigitsThenGarbage(t) ==
    /\ RunLength(t, 1, Digits) > 0
    /\ AfterNumber(t) < Len(t)
    /\ t[AfterNumber(t) + 1] \notin {"+", "-", "*", "/", "=", "<"}

(***************************************************************************)
(* The claims.                                                             *)
(***************************************************************************)

\* C1: whenever a call of a parser built from the functions whose parsers
\* can fail returns success = false, the position and the indent of the
\* cursor are what they were when the call started, also when parsers
\* inside it had consumed input or changed the indent before the failure.
C1_FailureRestoresCursor ==
    (pc = "called" /\ parser \in FailingParsers /\ pr.done = "return"
        /\ ~pr.success)
    => ps = before

\* inBetween fails at pEnd after pBegin lowered the indent and the parser
\* in between consumed a character
C1_Witness ==
    /\ pc = "called"
    /\ parser = <<"inBetween", <<"anyChar">>, <<"dedent">>, <<"EOS">>>>
    /\ Len(text) = 2
    /\ before = [position |-> 0, indent |-> 1]
    /\ pr.done = "return"
    /\ ~pr.success
    /\ ps = before

\* C2: when a text parses to a tree T, the string toString(T) parses too,
\* to its end, and to a tree equal to T.
C2_RoundTrip ==
    (mode = "serialized" /\ pc = "parsed")
    => (pr.success /\ ps.position = Len(text) /\ pr.value = base)

\* C3: one more whitespace after a token of a text that parses to its end,
\* the opening parenthesis included, leaves the tree the same; the spaced
\* example of the specification parses to the tree of the compact one.
C3_WhitespaceTolerance ==
    /\ (mode = "spaced" /\ pc = "parsed") => (pr.success /\ pr.value = base)
    /\ (pc = "parsed" /\ text = T_spaced)
        => (pr.success /\ pr.value = parseExpression(T_compact).value)

\* C4: parseExpression returns failure for a text that ends with a binary
\* operator that has no right operand, such as "1+".
C4_MissingRightOperandFails ==
    (pc = "parsed" /\ MissingRightOperand(text)) => ~pr.success

\* C5: parseExpression returns failure on the empty text and on a text
\* whose opening parenthesis is never closed, and a failing parseExpression
\* leaves the cursor at position 0.
C5_NoTermFails ==
    /\ (pc = "parsed" /\ (text = <<>> \/ UnclosedAtStart(text)))
        => (pr.done = "return" /\ ~pr.success)
    /\ (pc = "parsed" /\ ~pr.success) => ps = ParserState

\* the unbalanced text of the specification has failed
C5_Witness ==
    /\ pc = "parsed"
    /\ text = T_unbalanced
    /\ ~pr.success
    /\ ps.position = 0

\* C6: on digits followed by characters the grammar cannot consume,
\* parseExpression returns failure, or success with the position of the
\* first character it did not consume, which lies before the end.
C6_RemainderReported ==
    (pc = "parsed" /\ DigitsThenGarbage(text))
    => \/ ~pr.success
       \/ /\ pr.success
          /\ ps.position = AfterNumber(text)
          /\ ps.position < Len(text)

\* "12$" has parsed, and the position is that of "$"
C6_Witness ==
    /\ pc = "parsed"
    /\ text = T_12dollar
    /\ pr.success
    /\ ps.position = 2
    /\ pr.value = Number(<<"1", "2">>)

\* C7: of two operators of different levels in a o1 b o2 c the one that
\* binds tighter (* / before + - before = <>) takes b: "a + b * c" is
\* Binary(Add, a, Binary(Multiply, b, c)), "a + b = c" is
\* Binary(EqualTo, Binary(Add, a, b), c), and "1 + 2 * 3" serializes to
\* "(1 + (2 * 3))".
C7_Precedence ==
    /\ (pc = "parsed" /\ text \in ChainTexts)
        => \A ch \in Chains :
            (text = ch.text /\ Level(ch.o1) # Level(ch.o2))
            => /\ pr.success
               /\ ps.position = Len(text)
               /\ pr.value = IF Level(ch.o2) < Level(ch.o1)
                             THEN RightTree(ch)
                             ELSE LeftTree(ch)
    /\ (Parsed /\ mode = "typed" /\ text = T_1plus2times3)
        => pr.value = Binary(Add, Number(<<"1">>),
                             Binary(Multiply, Number(<<"2">>), Number(<<"3">>)))
    /\ (pc = "printed" /\ mode = "typed" /\ text = T_1plus2times3)
        => str = <<"(", "1", " ", "+", " ", "(", "2", " ", "*", " ", "3", ")", ")">>

\* "1 + 2 * 3" has been parsed and serialized
C7_Witness ==
    /\ pc = "printed"
    /\ mode = "typed"
    /\ text = T_1plus2times3
    /\ str = <<"(", "1", " ", "+", " ", "(", "2", " ", "*", " ", "3", ")", ")">>

\* C8: two operators of one level in a o1 b o2 c give the left-leaning
\* tree (a o1 b) o2 c and never a o1 (b o2 c); "1 - 2 - 3" is
\* Binary(Subtract, Binary(Subtract, 1, 2), 3).
C8_LeftAssociative ==
    /\ (pc = "parsed" /\ text \in ChainTexts)
        => \A ch \in Chains :
            (text = ch.text /\ Level(ch.o1) = Level(ch.o2))
            => /\ pr.success
               /\ ps.position = Len(text)
               /\ pr.value = LeftTree(ch)
               /\ pr.value # RightTree(ch)
    /\ (Parsed /\ mode = "typed" /\ text = T_1minus2minus3)
        => pr.value = Binary(Subtract,
                             Binary(Subtract, Number(<<"1">>), Number(<<"2">>)),
                             Number(<<"3">>))

\* "1 - 2 - 3" has been parsed to its end
C8_Witness ==
    /\ pc = "parsed"
    /\ text = T_1minus2minus3
    /\ pr.success
    /\ ps.position = Len(text)
    /\ pr.value[3][1] = "BinaryExpression"

\* C9: a parenthesized sub-expression is one term whatever its operator:
\* "(a o1 b) o2 c" is Binary(o2, Binary(o1, a, b), c), "c o2 (a o1 b)" is
\* Binary(o2, c, Binary(o1, a, b)), and "(1 + 2) * 3" serializes to
\* "((1 + 2) * 3)".
C9_ParenthesesOverride ==
    /\ (pc = "parsed" /\ text \in ParenTexts)
        => /\ \A ch \in ParenLeft :
                text = ch.text
                => /\ pr.success
                   /\ ps.position = Len(text)
                   /\ pr.value = LeftTree(ch)
           /\ \A ch \in ParenRight :
                text = ch.text
                => /\ pr.success
                   /\ ps.position = Len(text)
                   /\ pr.value =
                        Binary(OperatorOf(ch.o2), TermTree(ch.c),
                               Binary(OperatorOf(ch.o1), TermTree(ch.a),
                                      TermTree(ch.b)))
    /\ (Parsed /\ mode = "typed" /\ text = T_paren1plus2times3)
        => pr.value = Binary(Multiply,
                             Binary(Add, Number(<<"1">>), Number(<<"2">>)),
                             Number(<<"3">>))
    /\ (pc = "printed" /\ mode = "typed" /\ text = T_paren1plus2times3)
        => str = <<"(", "(", "1", " ", "+", " ", "2", ")", " ", "*", " ", "3", ")">>

\* "(1 + 2) * 3" has been parsed and serialized
C9_Witness ==
    /\ pc = "printed"
    /\ mode = "typed"
    /\ text = T_paren1plus2times3
    /\ pr.value[2] = Num(Multiply)
    /\ str = <<"(", "(", "1", " ", "+", " ", "2", ")", " ", "*", " ", "3", ")">>

\* C10: "x = y" parses to BinaryExpression(EqualTo, Identifier x,
\* Identifier y) and serializes to "(x = y)"; "x <> y" parses to a
\* NotEqualTo node and serializes to "(x <> y)".
C10_Comparison ==
    /\ (Parsed /\ mode = "typed" /\ text = T_xEQy)
        => /\ pr.success
           /\ pr.value = Binary(EqualTo, Identifier(<<"x">>), Identifier(<<"y">>))
    /\ (pc = "printed" /\ mode = "typed" /\ text = T_xEQy)
        => str = <<"(", "x", " ", "=", " ", "y", ")">>
    /\ (Parsed /\ mode = "typed" /\ text = T_xNEy)
        => /\ pr.success
           /\ pr.value = Binary(NotEqualTo, Identifier(<<"x">>),
                                Identifier(<<"y">>))
    /\ (pc = "printed" /\ mode = "typed" /\ text = T_xNEy)
        => str = <<"(", "x", " ", "<", ">", " ", "y", ")">>

\* "x <> y" has been parsed and serialized
C10_Witness ==
    /\ pc = "printed"
    /\ mode = "typed"
    /\ text = T_xNEy
    /\ pr.value[2] = Num(NotEqualTo)
    /\ str = <<"(", "x", " ", "<", ">", " ", "y", ")">>

\* the result of the first of the alternatives cs that succeeds from the
\* cursor c, as a sequence of none or one
FirstSuccess(cs, c) ==
    LET wins == {i \in 1..Len(cs) :
                    Run(cs[i], Env, c.position, c.indent).success}
    IN  IF wins = {} THEN <<>>
        ELSE LET i == CHOOSE k \in wins : \A j \in wins : k <= j
             IN  <<[alternative |-> i - 1,
                    result |-> Run(cs[i], Env, c.position, c.indent)]>>

\* C11: choice attempts its alternatives in argument order, each from the
\* cursor the call started with; it returns the value of the first one that
\* succeeds and attempts none after it; it fails with the cursor unchanged
\* when all fail or there is none.
C11_ChoiceInOrder ==
    frame.kind = "choice" =>
        /\ \A i \in 1..Len(frame.tried) :
            /\ frame.tried[i].alternative = i - 1
            /\ frame.tried[i].from = before
            /\ i < Len(frame.tried) => ~frame.tried[i].success
        /\ pc = "choice" => ps = before
        /\ (pc = "returned" /\ pr.success) =>
            /\ FirstSuccess(parser[2], before) # <<>>
            /\ LET first == FirstSuccess(parser[2], before)[1]
               IN  /\ Len(frame.tried) = first.alternative + 1
                   /\ pr.value = first.result.value
                   /\ ps = Cursor(first.result)
        /\ (pc = "returned" /\ ~pr.success) =>
            /\ pr.done = "return"
            /\ FirstSuccess(parser[2], before) = <<>>
            /\ Len(frame.tried) = Len(parser[2])
            /\ ps = before

\* the first alternative consumed a character and failed, the second was
\* attempted from the start of the call and its value returned
C11_Witness ==
    /\ pc = "returned"
    /\ parser = <<"choice", <<<<"keepLeft", <<"anyChar">>, <<"dedent">>>>,
                              <<"anyChar">>, <<"EOS">>>>>>
    /\ before = [position |-> 1, indent |-> 0]
    /\ Len(frame.tried) = 2
    /\ ~frame.tried[1].success
    /\ frame.tried[2].from = before
    /\ pr.success
    /\ pr.value = Num(charCodeAt(text[2]))
    /\ ps.position = 2

\* the cursor after n more pairs of separator and term, from the cursor c
RECURSIVE AfterPairs(_, _, _)
AfterPairs(chain, c, n) ==
    IF n = 0 THEN c
    ELSE LET sep == Run(chain[3], Env, c.position, c.indent)
             term == Run(chain[2], Env, sep.position, sep.indent)
         IN  AfterPairs(chain, Cursor(term), n - 1)

\* the pair of separator and term at the cursor c is accepted
PairAccepted(chain, c) ==
    LET sep == Run(chain[3], Env, c.position, c.indent)
    IN  /\ sep.success
        /\ Run(chain[2], Env, sep.position, sep.indent).success

\* the left fold of expressionCombiner over pairs of separator and term
RECURSIVE Fold(_, _)
Fold(value, pairs) ==
    IF pairs = <<>> THEN value
    ELSE Fold(BinaryExpression(pairs[1][1], value, pairs[1][2]), Tail(pairs))

\* C12: when chainLeft succeeds the cursor is the snapshot taken behind the
\* last accepted term: a separator whose term fails is not consumed, and the
\* value is the left fold of the combiner over the accepted pairs.
C12_ChainLeftKeepsNoSeparator ==
    (frame.kind = "chainLeft" /\ pc = "returned" /\ pr.success) =>
        LET n == Len(frame.pairs)
            last == AfterPairs(parser, Cursor(frame.first), n)
        IN  /\ \A k \in 0..(n - 1) :
                PairAccepted(parser, AfterPairs(parser, Cursor(frame.first), k))
            /\ ~PairAccepted(parser, last)
            /\ frame.snapshot = last
            /\ ps = last
            /\ pr.value = Fold(frame.first.value, frame.pairs)

\* "ab" from indent 2 with dedent as separator: a, dedent, b are accepted,
\* the second dedent has no term behind it and is taken back
C12_Witness ==
    /\ pc = "returned"
    /\ parser = <<"chainLeft", <<"anyChar">>, <<"dedent">>,
                  "expressionCombiner">>
    /\ text = <<"a", "b">>
    /\ before = [position |-> 0, indent |-> 2]
    /\ pr.success
    /\ Len(frame.pairs) = 1
    /\ frame.dangling
    /\ ps = [position |-> 2, indent |-> 1]
    /\ pr.value = BinaryExpression(Undefined, Num(97), Num(98))

\* C13: a chainLeft call that returns fails exactly when its first term
\* fails; behind a first term that succeeded it returns success whatever the
\* separator and the later terms do.
C13_ChainLeftFailsOnFirstOnly ==
    /\ (frame.kind = "chainLeft" /\ pc = "returned" /\ pr.done = "return")
        => /\ pr.success <=> Run(parser[2], Env, before.position,
                                 before.indent).success
           /\ ~pr.success => (frame.pairs = <<>> /\ ps = before)
    /\ (frame.kind = "chainLeft" /\ pc \in {"chainLeft", "diverged"})
        => Run(parser[2], Env, before.position, before.indent).success

\* the first term succeeded, the separator succeeded and the second term
\* failed: success
C13_Witness ==
    /\ pc = "returned"
    /\ frame.kind = "chainLeft"
    /\ parser[2] = <<"anyCharOf", <<"a", "b">>>>
    /\ parser[3] = <<"satisfy", <<"satisyTab">>>>
    /\ text = <<"a", "\t">>
    /\ before = [position |-> 0, indent |-> 0]
    /\ frame.dangling
    /\ pr.success
    /\ ps.position = 1

\* every success of p on the text consumes at least one character
Consuming(p) ==
    \A position \in 0..Len(text), indent \in 0..IndentCap :
        LET r == Run(p, Env, position, indent)
        IN  (r.done = "return" /\ r.success) => r.position > position

\* the cursor after n applications of p, from the cursor c
RECURSIVE Applied(_, _, _)
Applied(p, c, n) ==
    IF n = 0 THEN c
    ELSE Applied(p, Cursor(Run(p, Env, c.position, c.indent)), n - 1)

\* the result of the application of p that follows n applications from c
Application(p, c, n) ==
    Run(p, Env, Applied(p, c, n).position, Applied(p, c, n).indent)

\* C14: many and manyString return success whenever they return; when every
\* success of p consumes a character they return after at most
\* length(text) - position + 1 applications of p, with the values of the
\* successes of p in input order (none when p fails at once), and leave
\* the cursor where p first failed.
C14_ManyTerminates ==
    frame.kind = "many" =>
        /\ (pc = "returned" /\ pr.done = "return") => pr.success
        /\ Consuming(parser[2]) =>
            /\ pc # "diverged"
            /\ frame.applications <= Len(text) - before.position + 1
            /\ pc = "returned" =>
                LET n == Len(frame.result)
                IN  /\ pr.done = "return"
                    /\ frame.applications = n + 1
                    /\ \A i \in 1..n :
                        /\ Application(parser[2], before, i - 1).success
                        /\ frame.result[i] =
                            Stored(parser[1],
                                   Application(parser[2], before, i - 1).value)
                    /\ ~Application(parser[2], before, n).success
                    /\ ps = Cursor(Application(parser[2], before, n))
                    /\ pr.value = Collected(parser[1], frame.result)

\* manyString(anyChar) on "ab": three applications, the string "ab", the
\* cursor at the end
C14_Witness ==
    /\ pc = "returned"
    /\ parser = <<"manyString", <<"anyChar">>>>
    /\ text = <<"a", "b">>
    /\ before = [position |-> 0, indent |-> 1]
    /\ frame.applications = 3
    /\ pr.success
    /\ pr.value = Str(<<"a", "b">>)
    /\ ps = [position |-> 2, indent |-> 1]

\* C15: of the combinators only many and manyString can run without
\* returning; chainLeft returns whenever the calls of its arguments return.
C15_OnlyRepetitionDiverges ==
    pc = "diverged" => frame.kind = "many"

\* the texts ((a o b)) and (c o2 (a o1 b)) of NestedTexts, taken apart
NestedInner ==
    {[text |-> <<"(", "(">> \o a \o o \o b \o <<")", ")">>,
      a |-> a, o |-> o, b |-> b] :
        a \in Atoms, b \in Atoms, o \in Operators}

NestedRight ==
    {[text |-> <<"(">> \o c \o o2 \o <<"(">> \o a \o o1 \o b \o <<")", ")">>,
      a |-> a, o1 |-> o1, b |-> b, o2 |-> o2, c |-> c] :
        a \in Atoms, b \in Atoms, c \in Atoms,
        o1 \in Operators, o2 \in Operators}

\* the parsers of exp.ts that were built from the placeholder before
\* p_expression.parse was assigned
BuiltFromPlaceholder == {p_subExpression, p_term, p_l1, p_l2, p_l3}

\* C16: the parsers built from the placeholder before its parse was
\* assigned run the assigned grammar: a parenthesis in a parenthesis is
\* parsed with the whole expression grammar, comparison included, by
\* p_subExpression, p_term, p_l1, p_l2 and p_l3 alike.
C16_PlaceholderRebound ==
    (pc = "parsed" /\ mode = "typed" /\ text \in NestedTexts) =>
        /\ pr.success
        /\ ps.position = Len(text)
        /\ \A ch \in NestedInner :
            text = ch.text
            => pr.value = Binary(OperatorOf(ch.o), TermTree(ch.a),
                                 TermTree(ch.b))
        /\ \A ch \in NestedRight :
            text = ch.text
            => pr.value = Binary(OperatorOf(ch.o2), TermTree(ch.c),
                                 Binary(OperatorOf(ch.o1), TermTree(ch.a),
                                        TermTree(ch.b)))
        /\ text = T_nested3
            => pr.value = Binary(Add,
                                 Binary(EqualTo, Identifier(<<"x">>),
                                        Number(<<"1">>)),
                                 Number(<<"1">>))
        /\ \A p \in BuiltFromPlaceholder :
            LET r == parse(p, Slots, text)
            IN  /\ r.done = "return"
                /\ r.success
                /\ r.position = Len(text)
                /\ r.value = pr.value

\* "(1+(x=1))" has parsed: the comparison sits in the inner parenthesis
C16_Witness ==
    /\ pc = "parsed"
    /\ mode = "typed"
    /\ text = <<"(", "1", "+", "(", "x", "=", "1", ")", ")">>
    /\ pr.success
    /\ ps.position = 9
    /\ pr.value = Binary(Add, Number(<<"1">>),
                         Binary(EqualTo, Identifier(<<"x">>), Number(<<"1">>)))

\* C17: no call of a parser throws, whatever the text and also when the
\* parser references a circular() placeholder: no match is reported by
\* success = false only.
C17_NeverThrows ==
    pc = "called" => pr.done # "throw"

\* C18: the position of the cursor lies between 0 and the length of the
\* text and the indent is not negative, in every state in which text is the
\* text of a ParserState (the host has handed it to parse), and for every
\* snapshot a loop holds.
C18_CursorInRange ==
    pc # "input" =>
        /\ 0 <= ps.position /\ ps.position <= Len(text) /\ ps.indent >= 0
        /\ 0 <= before.position /\ before.position <= Len(text)
        /\ before.indent >= 0
        /\ frame.kind = "chainLeft" =>
            /\ 0 <= frame.snapshot.position
            /\ frame.snapshot.position <= Len(text)
            /\ frame.snapshot.indent >= 0

\* dedent() was called at indent 0 and failed; the indent is still 0
C18_Witness ==
    /\ pc = "called"
    /\ parser = <<"dedent">>
    /\ before.indent = 0
    /\ ~pr.success
    /\ ps.indent = 0
    /\ ps.position = Len(text)
    /\ Len(text) > 0

\* the operators of a tree, from left to right
RECURSIVE OperatorsIn(_)
OperatorsIn(tree) ==
    IF tree[1] = "BinaryExpression"
    THEN OperatorsIn(tree[3]) \o <<tree[2]>> \o OperatorsIn(tree[4])
    ELSE <<>>

\* the operators written in the characters i to n of t, from left to right
RECURSIVE OperatorTokens(_, _, _)
OperatorTokens(t, i, n) ==
    IF i > n THEN <<>>
    ELSE IF t[i] = "<" /\ i < n /\ t[i + 1] = ">"
    THEN <<Num(NotEqualTo)>> \o OperatorTokens(t, i + 2, n)
    ELSE IF t[i] \in {"+", "-", "*", "/", "="}
    THEN <<Num(OperatorOf(<<t[i]>>))>> \o OperatorTokens(t, i + 1, n)
    ELSE OperatorTokens(t, i + 1, n)

\* C19: the operators of the tree of a successful parseExpression are,
\* from left to right, those of the operator characters it consumed; none
\* is Unknown, and toString of the tree has no "<UNK>".
C19_NoUnknownOperator ==
    /\ (Parsed /\ pr.success) =>
        /\ OperatorsIn(pr.value) = OperatorTokens(text, 1, ps.position)
        /\ \A i \in 1..Len(OperatorsIn(pr.value)) :
            /\ OperatorsIn(pr.value)[i] # Num(Unknown)
            /\ OperatorsIn(pr.value)[i] \in
                {Num(Add), Num(Subtract), Num(Multiply), Num(Divide),
                 Num(EqualTo), Num(NotEqualTo)}
    /\ pc = "printed" =>
        \A i \in 1..(Len(str) - 1) : ~(str[i] = "<" /\ str[i + 1] = "U")

\* "1 - 2 - 3" has been parsed and serialized: two Subtract nodes
C19_Witness ==
    /\ pc = "printed"
    /\ mode = "typed"
    /\ text = T_1minus2minus3
    /\ OperatorsIn(pr.value) = <<Num(Subtract), Num(Subtract)>>
    /\ str = <<"(", "(", "1", " ", "-", " ", "2", ")", " ", "-", " ", "3",
               ")">>

\* a tree all of whose nodes are whole
RECURSIVE Complete(_)
Complete(tree) ==
    CASE tree[1] = "BinaryExpression" ->
            /\ Len(tree) = 4
            /\ tree[2][1] = "number"
            /\ Complete(tree[3])
            /\ Complete(tree[4])
      [] tree[1] = "NumberLiteralExpression" ->
            Len(tree) = 2 /\ tree[2][1] = "float" /\ Len(tree[2]) = 2
      [] tree[1] = "IdentifierExpression" -> Len(tree) = 2 /\ Len(tree[2]) > 0
      [] OTHER -> FALSE

\* C20: a ParseResult with success = false has the value undefined, for
\* the library's parsers, the loops and parseExpression alike; the value of
\* a successful parseExpression is a tree all of whose binary nodes have an
\* operator, a left and a right child.
C20_FailureHasNoValue ==
    /\ (pr.done = "return" /\ ~pr.success) => pr.value = Undefined
    /\ (Parsed /\ pr.success) => Complete(pr.value)

\* "(1+" has failed behind a number and an operator; the result has no value
C20_Witness ==
    /\ pc = "parsed"
    /\ text = T_unbalanced
    /\ pr.done = "return"
    /\ ~pr.success
    /\ pr.value = Undefined

\* the text t goes on with str from the position on
StartsWith(t, position, s) ==
    /\ position + Len(s) <= Len(t)
    /\ \A i \in 1..Len(s) : t[position + i] = s[i]

\* skipString(str) has been called
SkipStringCalled == pc = "called" /\ parser[1] = "skipString"

\* C21: skipString(str) succeeds, the position Len(str) further, exactly
\* when the text goes on with str; otherwise it fails with the position
\* unchanged, also behind a prefix of str that matched and when the text
\* ends within str.
C21_SkipString ==
    SkipStringCalled =>
        /\ pr.done = "return"
        /\ pr.success <=> StartsWith(text, before.position, parser[2])
        /\ pr.success =>
            /\ ps.position = before.position + Len(parser[2])
            /\ ps.indent = before.indent
        /\ ~pr.success => ps = before

\* skipString("ab") on "aa": the first character matched, the call failed
\* and the position is where it was
C21_Witness ==
    /\ SkipStringCalled
    /\ parser[2] = <<"a", "b">>
    /\ text = <<"a", "a">>
    /\ before.position = 0
    /\ ~pr.success
    /\ ps.position = 0

\* the character of t behind the position, "" at the end of t
CharAt(t, position) == IF position < Len(t) THEN t[position + 1] ELSE ""

\* EOL() has been called
EOLCalled == pc = "called" /\ parser[1] = "EOL"

\* the characters EOL() consumes from the position on, -1 for none to consume
LineEnd(t, position) ==
    CASE CharAt(t, position) = "" -> 0
      [] CharAt(t, position) = "\n" -> 1
      [] CharAt(t, position) = "\r" ->
            IF CharAt(t, position + 1) = "\n" THEN 2 ELSE 1
      [] OTHER -> -1

\* C22: EOL() succeeds without consuming at the end of the stream, consumes
\* one character on a line feed, two on carriage return and line feed, one
\* on a carriage return that no line feed follows, and fails with the
\* position unchanged on every other character.
C22_EOL ==
    EOLCalled =>
        /\ pr.done = "return"
        /\ pr.success <=> LineEnd(text, before.position) >= 0
        /\ pr.success =>
            /\ ps.position = before.position + LineEnd(text, before.position)
            /\ ps.indent = before.indent
        /\ ~pr.success => ps = before

\* EOL() on a carriage return and a line feed: both are consumed
C22_Witness ==
    /\ EOLCalled
    /\ text = <<"\r", "\n">>
    /\ before.position = 0
    /\ pr.success
    /\ ps.position = 2

\* the call returned what r is: the same flag, the same cursor and, on
\* success, the same value
SameOutcome(r) ==
    /\ pr.done = r.done
    /\ pr.success = r.success
    /\ ps = Cursor(r)
    /\ r.success => pr.value = r.value

\* q run from the cursor the call started with
FromBefore(q) == Run(q, Env, before.position, before.indent)

\* p.except(excluded) has been called with parsers that return
ExceptCalled ==
    /\ pc = "called"
    /\ parser[1] = "except"
    /\ FromBefore(parser[3]).done = "return"
    /\ FromBefore(parser[2]).done = "return"

\* C23: p.except(excluded) fails with the cursor unchanged when excluded
\* succeeds at the position, and otherwise returns the outcome of p run from
\* that same cursor; nothing the excluded parser consumed, and no indent it
\* changed, is kept.
C23_Except ==
    ExceptCalled =>
        IF FromBefore(parser[3]).success
        THEN pr.done = "return" /\ ~pr.success /\ ps = before
        ELSE SameOutcome(FromBefore(parser[2]))

\* anyChar().except(dedent()) at indent 1 before a character: dedent
\* succeeded, the call failed and the indent is 1 again
C23_Witness ==
    /\ ExceptCalled
    /\ parser = <<"except", <<"anyChar">>, <<"dedent">>>>
    /\ before.indent = 1
    /\ before.position < Len(text)
    /\ ~pr.success
    /\ ps = before

\* the places of the choices of a switchOver that register the character
Registrations(choices, c) ==
    {i \in 1..Len(choices) : \E k \in 1..Len(choices[i][1]) : choices[i][1][k] = c}

\* the last of a non-empty set of places
Last(S) == CHOOSE i \in S : \A k \in S : k <= i

\* switchOver has been called
SwitchOverCalled == pc = "called" /\ parser[1] = "switchOver"

\* C24: switchOver hands the call, from the unchanged cursor, to the parser
\* registered last for the next character; with no parser registered for it,
\* or at the end of the input, it fails with the cursor unchanged whatever
\* defaultTo is.
C24_SwitchOver ==
    SwitchOverCalled =>
        LET here == Registrations(parser[3], CharAt(text, before.position))
        IN  IF before.position >= Len(text) \/ here = {}
            THEN pr.done = "return" /\ ~pr.success /\ ps = before
            ELSE SameOutcome(FromBefore(parser[3][Last(here)][2]))

\* switchOver(anyChar(), ...) before a "b" nobody registered: anyChar would
\* succeed there, the call failed
C24_Witness ==
    /\ SwitchOverCalled
    /\ parser[2] = <<"anyChar">>
    /\ CharAt(text, before.position) = "b"
    /\ ~pr.success
    /\ ps = before

\* switchOver with "a" registered for anyChar() and then for dedent(), at
\* indent 0 before an "a": the call went to dedent() and failed
C24_LastWins ==
    /\ SwitchOverCalled
    /\ Len(parser[3]) = 2
    /\ parser[3][1][2] = <<"anyChar">>
    /\ parser[3][2][2] = <<"dedent">>
    /\ CharAt(text, before.position) = "a"
    /\ before.indent = 0
    /\ ~pr.success

\* the number of tabs of t from the position on
RECURSIVE TabsFrom(_, _)
TabsFrom(t, position) ==
    IF CharAt(t, position) = "\t" THEN 1 + TabsFrom(t, position + 1) ELSE 0

\* indention() has been called
IndentionCalled == pc = "called" /\ parser = <<"indention">>

\* dedent() has been called
DedentCalled == pc = "called" /\ parser = <<"dedent">>

\* C27: indention() at an indent n > 0 succeeds with n, the position n
\* further, exactly when n tabs follow, also when more than n follow; with
\* fewer it fails with the cursor unchanged; at indent 0 it succeeds with 0
\* and consumes nothing.  dedent() fails with the cursor unchanged at
\* indent 0 and makes the indent one less otherwise.
C27_IndentionAndDedent ==
    /\ IndentionCalled =>
        /\ pr.done = "return"
        /\ pr.success <=> TabsFrom(text, before.position) >= before.indent
        /\ pr.success =>
            /\ pr.value = Num(before.indent)
            /\ ps.position = before.position + before.indent
            /\ ps.indent = before.indent
        /\ ~pr.success => ps = before
    /\ DedentCalled =>
        /\ pr.done = "return"
        /\ pr.success <=> before.indent > 0
        /\ pr.success =>
            /\ ps.indent = before.indent - 1
            /\ ps.position = before.position
        /\ ~pr.success => ps = before

\* indention() at indent 1 before two tabs: one tab is consumed
C27_Witness ==
    /\ IndentionCalled
    /\ text = <<"\t", "\t">>
    /\ before = [position |-> 0, indent |-> 1]
    /\ pr.success
    /\ pr.value = Num(1)
    /\ ps.position = 1

\* indention() at indent 2 before one tab: it failed
C27_TooFewTabs ==
    /\ IndentionCalled
    /\ before.indent = 2
    /\ TabsFrom(text, before.position) = 1
    /\ ~pr.success
    /\ ps = before

\* dedent() at indent 0 failed
C27_DedentAtZero == DedentCalled /\ before.indent = 0 /\ ~pr.success

\* the first character of the text is a whitespace character
LeadingWhitespace == Len(text) > 0 /\ text[1] \in Whitespace

\* no whitespace character of the text follows an opening parenthesis
NoneAfterOpen ==
    \A k \in 1..(Len(text) - 1) :
        text[k] = "(" => text[k + 1] \notin Whitespace

\* C25: parseExpression fails on every input that starts with a whitespace
\* character; a whitespace character behind a number, an identifier, an
\* operator or a closing parenthesis is consumed with that token, so the
\* text still parses to its end and to the same tree.
C25_NoLeadingWhitespace ==
    pc = "parsed" =>
        /\ LeadingWhitespace =>
            /\ pr.done = "return"
            /\ ~pr.success
            /\ ps.position = 0
        /\ mode = "spaced" /\ NoneAfterOpen =>
            /\ pr.success
            /\ ps.position = Len(text)
            /\ pr.value = base

\* " 1" failed at position 0
C25_Witness ==
    /\ pc = "parsed"
    /\ text = <<" ", "1">>
    /\ ~pr.success
    /\ ps.position = 0

\* a text with a tab typed behind its closing parenthesis parsed to its end
C25_TrailingConsumed ==
    /\ pc = "parsed"
    /\ mode = "spaced"
    /\ \E k \in 2..Len(text) : text[k] = "\t" /\ text[k - 1] = ")"
    /\ pr.success
    /\ ps.position = Len(text)

\* the application of p that follows n applications from the cursor c
\* succeeded and left the cursor as it was
ZeroWidth(p, c, n) ==
    /\ Application(p, c, n).done = "return"
    /\ Application(p, c, n).success
    /\ Applied(p, c, n + 1) = Applied(p, c, n)

\* an application the loop of many or manyString has made was a success
\* that left the cursor as it was
ManyZeroWidth ==
    /\ frame.kind = "many"
    /\ \E n \in 0..(frame.applications - 1) : ZeroWidth(parser[2], before, n)

\* C26: many(p) and manyString(p) do not guard against a success of p that
\* leaves the cursor as it was: behind such a success the loop is at a
\* cursor it has had, p succeeds there again, and the call never returns.
C26_ManyZeroWidthDiverges ==
    ManyZeroWidth =>
        /\ pc = "diverged"
        /\ ps \in frame.seen
        /\ ZeroWidth(parser[2], ps, 0)

\* many(EOL()) at the end of the stream never returns
C26_Witness ==
    /\ pc = "diverged"
    /\ ManyZeroWidth
    /\ parser = <<"many", <<"EOL">>>>
    /\ ps.position = Len(text)

\* many(anyChar().opt()) never returns, after the characters it consumed
C26_Opt ==
    /\ pc = "diverged"
    /\ ManyZeroWidth
    /\ parser = <<"many", <<"opt", <<"anyChar">>>>>>
    /\ Len(frame.result) = 3

\* many(success(1)) never returns
C26_Success ==
    /\ pc = "diverged"
    /\ ManyZeroWidth
    /\ parser = <<"many", <<"success", Num(1)>>>>

\* at every position of the text p returns, and where it succeeds the
\* position it leaves is greater
Advances(p) ==
    \A position \in 0..Len(text) :
        LET r == Run(p, Env, position, 0)
        IN  /\ r.done = "return"
            /\ r.indent = 0
            /\ r.success => r.position > position

\* the separators of the three chainLeft loops of the grammar, their terms,
\* and the parser that runs before p_subExpression enters p_expression
LoopParts ==
    { p_multiplyLikeOperator, p_addLikeOperator, p_comparisonOperator,
      p_term, p_l1, p_l2, <<"skipString", <<"(">>>> }

\* C28: parseExpression returns for every text: no chainLeft loop of the
\* grammar comes back to a cursor it has had, and every separator, every
\* term of a chain and the opening parenthesis before a sub-expression
\* leave a greater position than they started at, so every iteration and
\* every recursive entry is at a greater position than the one before.
C28_ParseExpressionTerminates ==
    pc = "parsed" =>
        /\ pr.done = "return"
        /\ ps.position \in 0..Len(text)
        /\ \A p \in LoopParts : Advances(p)

\* the text with three parentheses in one another, two of them holding a
\* chain, has been parsed to its end
C28_Witness ==
    /\ pc = "parsed"
    /\ text = T_nested3
    /\ pr.done = "return"
    /\ pr.success
    /\ ps.position = Len(text)
    /\ Depth(text, 3) = 3

\* the first n characters of the text, parsed on their own
PrefixParsed(n) == parseExpression(SubSeq(text, 1, n))

\* C29: when parseExpression succeeds at a position n, at the end of the
\* text or before it, the first n characters of the text parse on their own
\* to the same position and to an equal tree; the indent is 0 at the end.
C29_PrefixParses ==
    (pc = "parsed" /\ pr.success) =>
        /\ ps.position \in 0..Len(text)
        /\ ps.indent = 0
        /\ PrefixParsed(ps.position) = succeed(pr.value, ps.position, 0)

\* "12$" succeeded at position 2 of 3
C29_Witness ==
    /\ pc = "parsed"
    /\ text = T_12dollar
    /\ pr.success
    /\ ps.position = 2
    /\ PrefixParsed(2).value = pr.value

\* "1+(" succeeded at position 1 of 3, behind an operator and a
\* parenthesis it gave back
C29_GivenBack ==
    /\ pc = "parsed"
    /\ text = <<"1", "+", "(">>
    /\ pr.success
    /\ ps.position = 1

\* the call the page made last, as the page has it now
LastCall ==
    [text |-> text, success |-> pr.success, value |-> pr.value,
     position |-> ps.position, indent |-> ps.indent]

====
